---------------------------- MODULE Spec2Model ----------------------------
(***************************************************************************)
(* URL shortener: UrlService (createUrls, redirectUrl) over StorageService *)
(* (localStorage blob) with the validation utilities.                      *)
(*                                                                         *)
(* Strings are sequences of one-character strings, so that trim, the       *)
(* shortcode pattern and sanitising are computed.  A JavaScript optional   *)
(* value (T | undefined, T | null) is a sequence of length 0 or 1.         *)
(* Instants are milliseconds.                                              *)
(***************************************************************************)
EXTENDS Integers, Sequences, FiniteSets, Bags, TLC

VARIABLES
    localStorage,   \* the item under URLS_KEY: <<>> (absent) or <<serialized>>
    now,            \* the wall clock, in ms
    nextId,         \* uuidv4(): the next fresh identifier
    create,         \* the createUrls invocation (suspended at its await, or done)
    redir,          \* the redirectUrl invocation (suspended at its await, or done)
    direct,         \* the last call made on storageService itself, and its effect
    logger,         \* the Logger singleton: its queue, its cycle, its fetches
    calls           \* further invocations in flight beside create and redir

vars == <<localStorage, now, nextId, create, redir, direct, logger, calls>>

-----------------------------------------------------------------------------
(* Bounds of the model *)

\* clock ticks the model lets pass
MaxTicks == 2
\* a createUrls call that creates records starts only while uuidv4 has
\* handed out fewer than MaxIds identifiers
MaxIds == 2
\* identifiers uuidv4 hands out to click events beyond MaxIds
MaxClicks == 1
\* the pages and page sizes getUrlsPaginated is asked for: 0..MaxPage, 1..MaxLimit
MaxPage == 3
MaxLimit == 3
\* longest batch enumerated in full (longer ones only as over-size batches)
MaxBatch == 2
\* entries the callers of the logger hand to it
MaxLogs == 3

(* Program constants *)

MAX_URLS == 5
MaxAttempts == 10
DefaultValidity == 30
MaxValidity == 10080
MinCodeLen == 3
MaxCodeLen == 20
GenLength == 6
MsPerMinute == 60000

-----------------------------------------------------------------------------
(* Strings *)

AlnumChars ==
    { "a", "b", "c", "d", "e", "f", "g", "h", "i", "j", "k", "l", "m",
      "n", "o", "p", "q", "r", "s", "t", "u", "v", "w", "x", "y", "z",
      "A", "B", "C", "D", "E", "F", "G", "H", "I", "J", "K", "L", "M",
      "N", "O", "P", "Q", "R", "S", "T", "U", "V", "W", "X", "Y", "Z",
      "0", "1", "2", "3", "4", "5", "6", "7", "8", "9" }

Str(n, c) == [i \in 1..n |-> c]

RECURSIVE TrimStart(_)
TrimStart(s) ==
    IF s # <<>> /\ Head(s) = " " THEN TrimStart(Tail(s)) ELSE s

RECURSIVE TrimEnd(_)
TrimEnd(s) ==
    IF s # <<>> /\ s[Len(s)] = " " THEN TrimEnd(SubSeq(s, 1, Len(s) - 1)) ELSE s

\* String.prototype.trim
Trim(s) == TrimEnd(TrimStart(s))

IsAlnumChar(c) == c \in AlnumChars

\* /^[a-zA-Z0-9]{3,20}$/.test(shortcode)
IsValidShortcode(shortcode) ==
    /\ Len(shortcode) >= MinCodeLen
    /\ Len(shortcode) <= MaxCodeLen
    /\ \A i \in 1..Len(shortcode) : IsAlnumChar(shortcode[i])

\* shortcode.trim().replace(/[^a-zA-Z0-9]/g, '')
SanitizeShortcode(shortcode) == SelectSeq(Trim(shortcode), IsAlnumChar)

\* url.trim()
SanitizeUrl(url) == Trim(url)

(* A URL string is a scheme token followed by host tokens. *)
Schemes == {"http:", "https:", "ftp:"}

\* new URL(url).protocol, or <<>> when the constructor throws
UrlProtocol(url) ==
    LET u == Trim(url)
    IN  IF /\ Len(u) >= 2
           /\ u[1] \in Schemes
           /\ \A i \in 2..Len(u) : u[i] \notin Schemes \cup {" "}
        THEN <<u[1]>>
        ELSE <<>>

IsValidUrl(url) ==
    /\ UrlProtocol(url) # <<>>
    /\ UrlProtocol(url)[1] \in {"http:", "https:"}

\* A JavaScript number, as far as validityMinutes needs one: the fraction
\* num/den with den > 0, and NaN with den = 0.
Frac(n, d) == [num |-> n, den |-> d]
Num(n) == Frac(n, 1)
NaN == Frac(0, 0)

\* Number.isInteger(x)
IsInteger(x) == x.den # 0 /\ x.num % x.den = 0

\* mutant: the Number.isInteger test is left out
IsValidValidityMinutes_Fractions(minutes) ==
    minutes.num > 0 /\ minutes.num <= MaxValidity * minutes.den

IsValidValidityMinutes(minutes) ==
    IsInteger(minutes) /\ minutes.num > 0 /\ minutes.num <= MaxValidity * minutes.den


-----------------------------------------------------------------------------
(* Validation (utils/validation) *)

MsgUrlRequired == "URL is required"
MsgUrlFormat == "Invalid URL format. Must start with http:// or https://"
MsgValidity == "Validity must be a positive integer between 1 and 10080 minutes (1 week)"
MsgCodeFormat == "Shortcode must be 3-20 characters long and contain only letters and numbers"
MsgDuplicate == "Duplicate shortcode in request"
MsgEmpty == "At least one URL is required"
MsgTooMany == "Maximum 5 URLs allowed per request"
MsgInUse == "Shortcode is already in use"
MsgGenFailed == "Unable to generate unique shortcode after multiple attempts"
MsgNotFound == "Short URL not found or has expired"
MsgStorage == "Failed to save data to storage"

VErr(field, message) == [field |-> field, message |-> message]

\* request.customShortcode && request.customShortcode.trim() !== ''
HasCustomShortcode(request) ==
    /\ request.customShortcode # <<>>
    /\ Trim(request.customShortcode[1]) # <<>>

ValidateUrlRequest(request) ==
    LET urlErrs ==
            IF request.originalUrl = <<>> \/ Trim(request.originalUrl) = <<>>
            THEN <<VErr("originalUrl", MsgUrlRequired)>>
            ELSE IF ~IsValidUrl(Trim(request.originalUrl))
                 THEN <<VErr("originalUrl", MsgUrlFormat)>>
                 ELSE <<>>
        minErrs ==
            IF /\ request.validityMinutes # <<>>
               /\ ~IsValidValidityMinutes(request.validityMinutes[1])
            THEN <<VErr("validityMinutes", MsgValidity)>>
            ELSE <<>>
        codeErrs ==
            IF /\ request.customShortcode # <<>>
               /\ Trim(request.customShortcode[1]) # <<>>
               /\ ~IsValidShortcode(Trim(request.customShortcode[1]))
            THEN <<VErr("customShortcode", MsgCodeFormat)>>
            ELSE <<>>
    IN  urlErrs \o minErrs \o codeErrs

\* mutant: the duplicate check compares the codes as typed, untrimmed
RECURSIVE ValidateFrom_Untrimmed(_, _, _, _, _)
ValidateFrom_Untrimmed(requests, i, valid, errors, usedShortcodes) ==
    IF i > Len(requests)
    THEN [valid |-> valid, errors |-> errors]
    ELSE
        LET request == requests[i]
            base == ValidateUrlRequest(request)
            custom == HasCustomShortcode(request)
            shortcode == IF custom THEN request.customShortcode[1] ELSE <<>>
            dup == custom /\ shortcode \in usedShortcodes
            requestErrors ==
                IF dup THEN Append(base, VErr("customShortcode", MsgDuplicate))
                ELSE base
            used2 ==
                IF custom /\ ~dup THEN usedShortcodes \cup {shortcode}
                ELSE usedShortcodes
        IN  IF requestErrors = <<>>
            THEN ValidateFrom_Untrimmed(requests, i + 1, Append(valid, request),
                                        errors, used2)
            ELSE ValidateFrom_Untrimmed(requests, i + 1, valid,
                              Append(errors, [index |-> i - 1, errors |-> requestErrors]),
                              used2)

\* mutant: only a request without errors reserves its custom shortcode
RECURSIVE ValidateFrom_ReservedByValid(_, _, _, _, _)
ValidateFrom_ReservedByValid(requests, i, valid, errors, usedShortcodes) ==
    IF i > Len(requests)
    THEN [valid |-> valid, errors |-> errors]
    ELSE
        LET request == requests[i]
            base == ValidateUrlRequest(request)
            custom == HasCustomShortcode(request)
            shortcode == IF custom THEN Trim(request.customShortcode[1]) ELSE <<>>
            dup == custom /\ shortcode \in usedShortcodes
            requestErrors ==
                IF dup THEN Append(base, VErr("customShortcode", MsgDuplicate))
                ELSE base
            used2 ==
                IF custom /\ requestErrors = <<>> THEN usedShortcodes \cup {shortcode}
                ELSE usedShortcodes
        IN  IF requestErrors = <<>>
            THEN ValidateFrom_ReservedByValid(requests, i + 1, Append(valid, request),
                                              errors, used2)
            ELSE ValidateFrom_ReservedByValid(requests, i + 1, valid,
                              Append(errors, [index |-> i - 1, errors |-> requestErrors]),
                              used2)

\* the requests.forEach of validateUrlRequests, from position i on
RECURSIVE ValidateFrom(_, _, _, _, _)
ValidateFrom(requests, i, valid, errors, usedShortcodes) ==
    IF i > Len(requests)
    THEN [valid |-> valid, errors |-> errors]
    ELSE
        LET request == requests[i]
            base == ValidateUrlRequest(request)
            custom == HasCustomShortcode(request)
            shortcode == IF custom THEN Trim(request.customShortcode[1]) ELSE <<>>
            dup == custom /\ shortcode \in usedShortcodes
            requestErrors ==
                IF dup THEN Append(base, VErr("customShortcode", MsgDuplicate))
                ELSE base
            used2 ==
                IF custom /\ ~dup THEN usedShortcodes \cup {shortcode}
                ELSE usedShortcodes
        IN  IF requestErrors = <<>>
            THEN ValidateFrom(requests, i + 1, Append(valid, request), errors, used2)
            ELSE ValidateFrom(requests, i + 1, valid,
                              Append(errors, [index |-> i - 1, errors |-> requestErrors]),
                              used2)

\* mutant: the size limit is not enforced
ValidateUrlRequests_NoLimit(requests) ==
    IF Len(requests) = 0
    THEN [valid |-> <<>>,
          errors |-> <<[index |-> 0, errors |-> <<VErr("general", MsgEmpty)>>]>>]
    ELSE ValidateFrom(requests, 1, <<>>, <<>>, {})

ValidateUrlRequests(requests) ==
    IF Len(requests) = 0
    THEN [valid |-> <<>>,
          errors |-> <<[index |-> 0, errors |-> <<VErr("general", MsgEmpty)>>]>>]
    ELSE IF Len(requests) > MAX_URLS
    THEN [valid |-> <<>>,
          errors |-> <<[index |-> 0, errors |-> <<VErr("general", MsgTooMany)>>]>>]
    ELSE ValidateFrom(requests, 1, <<>>, <<>>, {})

\* validationErrors.map(e => e.message).join(', '): the messages, in order
JoinMessages(validationErrors) ==
    [j \in 1..Len(validationErrors) |-> validationErrors[j].message]

-----------------------------------------------------------------------------
(* Storage (services/storage) *)

MsPerSecond == 1000
MsPerHour == 60 * MsPerMinute
MsPerDay == 24 * MsPerHour

\* mutant: the text is written to the second
ToISOString_Seconds(date) ==
    [date |-> date \div MsPerDay,
     hours |-> (date % MsPerDay) \div MsPerHour,
     minutes |-> (date % MsPerHour) \div MsPerMinute,
     seconds |-> (date % MsPerMinute) \div MsPerSecond,
     ms |-> 0]

\* Date.prototype.toISOString: YYYY-MM-DDTHH:mm:ss.sssZ, the date part as
\* the day it names, counted from 1970-01-01
ToISOString(date) ==
    [date |-> date \div MsPerDay,
     hours |-> (date % MsPerDay) \div MsPerHour,
     minutes |-> (date % MsPerHour) \div MsPerMinute,
     seconds |-> (date % MsPerMinute) \div MsPerSecond,
     ms |-> date % MsPerSecond]

\* new Date(isoString)
ParseDate(text) ==
    text.date * MsPerDay + text.hours * MsPerHour + text.minutes * MsPerMinute
        + text.seconds * MsPerSecond + text.ms

SerializeClick(click) == [click EXCEPT !.timestamp = ToISOString(click.timestamp)]
ParseClick(click) == [click EXCEPT !.timestamp = ParseDate(click.timestamp)]

SerializeUrl(url) ==
    [url EXCEPT !.createdAt = ToISOString(url.createdAt),
                !.expiresAt = ToISOString(url.expiresAt),
                !.clicks = [j \in 1..Len(url.clicks) |-> SerializeClick(url.clicks[j])]]

ParseUrl(url) ==
    [url EXCEPT !.createdAt = ParseDate(url.createdAt),
                !.expiresAt = ParseDate(url.expiresAt),
                !.clicks = [j \in 1..Len(url.clicks) |-> ParseClick(url.clicks[j])]]

\* JSON.stringify(urls, replacer): the value setItem stores
Serialize(urls) == [j \in 1..Len(urls) |-> SerializeUrl(urls[j])]

\* What makes the try block of loadUrls throw, as a part of the stored text:
\* getItem throws ("read"), JSON.parse throws ("json"), or the parsed value
\* has nothing to map over ("shape").
LoadFailures == {"read", "json", "shape"}
Unloadable(kind) == [bad |-> kind]

\* the try block of loadUrls throws
LoadThrows(ls) ==
    ls # <<>> /\ \E j \in DOMAIN ls[1] : "bad" \in DOMAIN ls[1][j]

\* mutant: the catch block returns the records read before the throw
RECURSIVE LoadCaught_Partial(_)
LoadCaught_Partial(ls) ==
    IF ls[1] = <<>> \/ "bad" \in DOMAIN Head(ls[1]) THEN <<>>
    ELSE <<ParseUrl(Head(ls[1]))>> \o LoadCaught_Partial(<<Tail(ls[1])>>)

\* catch (error) { ...; return []; }
LoadCaught(ls) == <<>>

LoadUrls(ls) ==
    IF ls = <<>> THEN <<>>
    ELSE IF LoadThrows(ls) THEN LoadCaught(ls)
    ELSE [j \in 1..Len(ls[1]) |-> ParseUrl(ls[1][j])]

\* urls.findIndex(url => url.shortcode === shortcode), 1-based; 0 when none
RECURSIVE FindIndexFrom(_, _, _)
FindIndexFrom(urls, shortcode, j) ==
    IF j > Len(urls) THEN 0
    ELSE IF urls[j].shortcode = shortcode THEN j
    ELSE FindIndexFrom(urls, shortcode, j + 1)

FindIndex(urls, shortcode) == FindIndexFrom(urls, shortcode, 1)

IsExpiredForLookup(t, expiresAt) == t > expiresAt

\* findByShortcode at instant t: <<>> is null
FindByShortcode(ls, shortcode, t) ==
    LET urls == LoadUrls(ls)
        j == FindIndex(urls, shortcode)
    IN  IF j = 0 THEN <<>>
        ELSE IF IsExpiredForLookup(t, urls[j].expiresAt) THEN <<>>
        ELSE <<urls[j]>>

\* mutant: only records that have not expired count as in use
IsShortcodeInUse_ActiveOnly(ls, shortcode) ==
    LET urls == LoadUrls(ls)
    IN  \E j \in 1..Len(urls) :
            urls[j].shortcode = shortcode /\ urls[j].expiresAt > now

IsShortcodeInUse(ls, shortcode) ==
    LET urls == LoadUrls(ls)
    IN  \E j \in 1..Len(urls) : urls[j].shortcode = shortcode

\* mutant: addUrls saves the new records only
AddUrlsValue_Overwrite(ls, newUrls) == newUrls

\* the collection addUrls hands to saveUrls
AddUrlsValue(ls, newUrls) == LoadUrls(ls) \o newUrls

\* mutant: recordClick saves whether or not a record has the shortcode
RecordClickFinds_Always(ls, shortcode) == TRUE

\* recordClick: urlIndex !== -1, it goes on to push and save
RecordClickFinds(ls, shortcode) == FindIndex(LoadUrls(ls), shortcode) # 0

\* mutant: recordClick leaves a record that has expired alone
RecordClickValue_UnlessExpired(ls, shortcode, clickEvent) ==
    LET urls == LoadUrls(ls)
        j == FindIndex(urls, shortcode)
    IN  IF now > urls[j].expiresAt
        THEN urls
        ELSE [urls EXCEPT ![j].clicks = Append(@, clickEvent)]

\* mutant: the click is pushed onto every record with the shortcode
RecordClickValue_AllMatches(ls, shortcode, clickEvent) ==
    LET urls == LoadUrls(ls)
    IN  [j \in 1..Len(urls) |->
            IF urls[j].shortcode = shortcode
            THEN [urls[j] EXCEPT !.clicks = Append(@, clickEvent)]
            ELSE urls[j]]

\* the collection recordClick hands to saveUrls (urlIndex found)
RecordClickValue(ls, shortcode, clickEvent) ==
    LET urls == LoadUrls(ls)
        j == FindIndex(urls, shortcode)
    IN  [urls EXCEPT ![j].clicks = Append(@, clickEvent)]

\* urls.reduce((sum, url) => sum + url.clicks.length, 0)
RECURSIVE SumClicksFrom(_, _, _)
SumClicksFrom(urls, j, sum) ==
    IF j > Len(urls) THEN sum
    ELSE SumClicksFrom(urls, j + 1, sum + Len(urls[j].clicks))

\* url.expiresAt > now
IsActiveAt(t, expiresAt) == expiresAt > t

\* mutant: a record that expires at this very instant is not counted expired
IsExpiredAt_Strict(t, expiresAt) == expiresAt < t

\* url.expiresAt <= now
IsExpiredAt(t, expiresAt) == expiresAt <= t

\* getAnalytics() at instant t
GetAnalytics(ls, t) ==
    LET urls == LoadUrls(ls)
    IN  [totalUrls |-> Len(urls),
         totalClicks |-> SumClicksFrom(urls, 1, 0),
         activeUrls |->
            Len(SelectSeq(urls, LAMBDA url : IsActiveAt(t, url.expiresAt))),
         expiredUrls |->
            Len(SelectSeq(urls, LAMBDA url : IsExpiredAt(t, url.expiresAt)))]

\* Array.prototype.sort((a, b) => b.createdAt.getTime() - a.createdAt.getTime()):
\* the sort is stable, so url goes behind the records that are not older
RECURSIVE InsertByCreatedAt(_, _)
InsertByCreatedAt(sorted, url) ==
    IF sorted = <<>> THEN <<url>>
    ELSE IF Head(sorted).createdAt >= url.createdAt
         THEN <<Head(sorted)>> \o InsertByCreatedAt(Tail(sorted), url)
         ELSE <<url>> \o sorted

RECURSIVE SortFrom(_, _, _)
SortFrom(urls, j, sorted) ==
    IF j > Len(urls) THEN sorted
    ELSE SortFrom(urls, j + 1, InsertByCreatedAt(sorted, urls[j]))

SortNewestFirst(urls) == SortFrom(urls, 1, <<>>)

\* Array.prototype.slice: an index below 0 counts from the end, and both
\* indices are clamped to 0..length
SliceIndex(i, len) ==
    IF i < 0 THEN (IF len + i < 0 THEN 0 ELSE len + i)
    ELSE IF i > len THEN len ELSE i

Slice(s, start, end) ==
    SubSeq(s, SliceIndex(start, Len(s)) + 1, SliceIndex(end, Len(s)))

\* mutant: hasMore also when the window ends at the last record
HasMore_Inclusive(end, total) == end <= total

\* end < allUrls.length
HasMore(end, total) == end < total

\* getUrlsPaginated(page, limit)
GetUrlsPaginated(ls, page, limit) ==
    LET allUrls == SortNewestFirst(LoadUrls(ls))
        start == page * limit
        end == start + limit
    IN  [urls |-> Slice(allUrls, start, end),
         total |-> Len(allUrls),
         hasMore |-> HasMore(end, Len(allUrls))]

-----------------------------------------------------------------------------
(* UrlService (services/urlService) *)

\* const chars = 'abc...xyzABC...XYZ0123456789'
ShortcodeChars ==
    << "a", "b", "c", "d", "e", "f", "g", "h", "i", "j", "k", "l", "m",
       "n", "o", "p", "q", "r", "s", "t", "u", "v", "w", "x", "y", "z",
       "A", "B", "C", "D", "E", "F", "G", "H", "I", "J", "K", "L", "M",
       "N", "O", "P", "Q", "R", "S", "T", "U", "V", "W", "X", "Y", "Z",
       "0", "1", "2", "3", "4", "5", "6", "7", "8", "9" >>

\* generateShortcode(length): picks[i] is Math.floor(Math.random() * chars.length)
\* of the i-th round of the loop
GenerateShortcode(length, picks) ==
    [i \in 1..length |-> ShortcodeChars[picks[i] + 1]]

\* generateShortcode(6) may return any 6-character code; two are enough to
\* collide with a stored code or with each other
GenCodes ==
    { GenerateShortcode(GenLength, [i \in 1..GenLength |-> pick]) : pick \in {0, 1} }

\* What Math.random makes generateShortcode return on attempts 0, 1, 2, ...:
\* one code for the first k attempts and one code from then on.
Streams ==
    { [n \in 0..MaxAttempts |-> IF n < k THEN c1 ELSE c2] :
        k \in 0..(MaxAttempts + 1), c1 \in GenCodes, c2 \in GenCodes }

\* the streams that can make a difference to createSingleUrl(request)
StreamsFor(request) ==
    IF HasCustomShortcode(request)
    THEN { [n \in 0..MaxAttempts |-> Str(GenLength, "a")] }
    ELSE Streams

\* mutant: gives up one attempt early
AttemptsExhausted_Early(attempts) == attempts >= MaxAttempts

AttemptsExhausted(attempts) == attempts > MaxAttempts

\* mutant: the candidate is returned without looking at the store
GenerateUniqueShortcode_Unchecked(ls, stream, attempts) ==
    [ok |-> TRUE, shortcode |-> stream[attempts], draws |-> attempts + 1]

\* generateUniqueShortcode(attempts); draws counts the candidates drawn
RECURSIVE GenerateUniqueShortcode(_, _, _)
GenerateUniqueShortcode(ls, stream, attempts) ==
    IF AttemptsExhausted(attempts)
    THEN [ok |-> FALSE, shortcode |-> <<>>, draws |-> attempts]
    ELSE LET shortcode == stream[attempts]
         IN  IF IsShortcodeInUse(ls, shortcode)
             THEN GenerateUniqueShortcode(ls, stream, attempts + 1)
             ELSE [ok |-> TRUE, shortcode |-> shortcode, draws |-> attempts + 1]

\* request.validityMinutes || 30
ValidityOrDefault(request) ==
    IF request.validityMinutes # <<>> /\ request.validityMinutes[1].num # 0
    THEN request.validityMinutes[1]
    ELSE Num(DefaultValidity)

\* validityMinutes * 60 * 1000
ValidityMs(validityMinutes) ==
    (validityMinutes.num * MsPerMinute) \div validityMinutes.den

NewShortUrl(id, request, shortcode, isCustom, t) ==
    [id |-> id,
     originalUrl |-> SanitizeUrl(request.originalUrl),
     shortcode |-> shortcode,
     createdAt |-> t,
     expiresAt |-> t + ValidityMs(ValidityOrDefault(request)),
     validityMinutes |-> ValidityOrDefault(request),
     clicks |-> <<>>,
     isCustomShortcode |-> isCustom]

Thrown(message, draws) ==
    [ok |-> FALSE, shortUrl |-> <<>>, error |-> <<message>>, draws |-> draws]

Created(shortUrl, draws) ==
    [ok |-> TRUE, shortUrl |-> <<shortUrl>>, error |-> <<>>, draws |-> draws]

\* createSingleUrl(request): the settled promise (a record, or the error thrown)
CreateSingleUrl(ls, request, stream, t, id) ==
    IF HasCustomShortcode(request)
    THEN LET shortcode == SanitizeShortcode(request.customShortcode[1])
         IN  IF IsShortcodeInUse(ls, shortcode)
             THEN Thrown(MsgInUse, 0)
             ELSE Created(NewShortUrl(id, request, shortcode, TRUE, t), 0)
    ELSE LET g == GenerateUniqueShortcode(ls, stream, 0)
         IN  IF g.ok
             THEN Created(NewShortUrl(id, request, g.shortcode, FALSE, t), g.draws)
             ELSE Thrown(MsgGenFailed, g.draws)

\* requests.findIndex(r => r.originalUrl === request.originalUrl &&
\*                         r.customShortcode === request.customShortcode), 0-based
RECURSIVE OriginalIndexFrom(_, _, _)
OriginalIndexFrom(requests, request, i) ==
    IF i > Len(requests) THEN -1
    ELSE IF /\ requests[i].originalUrl = request.originalUrl
            /\ requests[i].customShortcode = request.customShortcode
         THEN i - 1
         ELSE OriginalIndexFrom(requests, request, i + 1)

OriginalIndex(requests, request) == OriginalIndexFrom(requests, request, 1)

\* errors.forEach(...): the validation errors in response format
ConvertErrors(errors) ==
    [j \in 1..Len(errors) |->
        [index |-> errors[j].index, error |-> JoinMessages(errors[j].errors)]]

-----------------------------------------------------------------------------
(* Inputs *)

OkUrl == <<"https:", "x">>
PaddedUrl == <<" ", "https:", "x", " ">>
FtpUrl == <<"ftp:", "x">>

Req(u, v, c) == [originalUrl |-> u, validityMinutes |-> v, customShortcode |-> c]

\* the requests a batch is made of
Requests ==
    { Req(OkUrl, <<>>, <<>>),                             \* generated code, default validity
      Req(OkUrl, <<Num(1)>>, <<>>),                       \* generated code, one minute
      Req(OkUrl, <<Num(0)>>, <<>>),                       \* validity out of range
      Req(OkUrl, <<Num(1)>>, <<Str(3, "a")>>),            \* custom "aaa"
      Req(PaddedUrl, <<>>, <<<<" ">> \o Str(3, "a")>>),   \* custom " aaa", padded URL
      Req(OkUrl, <<Num(1)>>, <<<<"A">> \o Str(2, "a")>>), \* custom "Aaa"
      Req(FtpUrl, <<>>, <<Str(3, "a")>>),                 \* custom "aaa", URL not http(s)
      Req(OkUrl, <<Num(1)>>, <<Str(2, "a")>>) }           \* custom "aa": too short

RECURSIVE SeqsOfLen(_, _)
SeqsOfLen(S, n) ==
    IF n = 0 THEN { <<>> }
    ELSE { Append(q, x) : q \in SeqsOfLen(S, n - 1), x \in S }

\* the batches createUrls is called with: every batch of up to MaxBatch
\* requests, and the over-size batches of one repeated request
Batches ==
    UNION { SeqsOfLen(Requests, n) : n \in 0..MaxBatch }
    \cup { [i \in 1..(MAX_URLS + 1) |-> r] : r \in Requests }

\* the shortcodes redirectUrl is called with
RedirectCodes == GenCodes \cup { Str(3, "a"), <<"A">> \o Str(2, "a") }

\* what getGeoLocation resolves to: {} or {country, city}
GeoResults == { [country |-> <<>>, city |-> <<>>],
                [country |-> <<"IN">>, city |-> <<"Pune">>] }

-----------------------------------------------------------------------------
(* Logger (middleware/logger.ts) *)

\* what a fetch of the log endpoint does when it settles: response.ok, a
\* response that is not ok, or a network error.  A fetch that never settles
\* stays in logger.fetches.
FetchResults == {"ok", "notOk", "rejects"}

\* The Logger before its constructor has run.  logQueue, isProcessing: the
\* fields of the class; timers: the setTimeout callbacks of processQueue that
\* are pending; logsToProcess: the batch of the processQueue call suspended at
\* its await; fetches: the fetch calls of sendLog in flight, a bag of the
\* callers of sendLog (Log, or processQueue with its batch); rejected: a
\* sendLog promise of that batch has rejected.  For the properties: nextLog
\* numbers the entries, cycle numbers the batches, sent holds every sendLog
\* call made, failed tells that a fetch of the batch did not succeed, and
\* during[id] is the batch that was in flight when entry id was queued (0: none).
UnstartedLogger ==
    [logQueue |-> <<>>, isProcessing |-> FALSE, timers |-> 0,
     logsToProcess |-> <<>>, fetches |-> EmptyBag, rejected |-> FALSE,
     nextLog |-> 1, cycle |-> 0, sent |-> {}, failed |-> FALSE, during |-> <<>>]

\* sendLog(logEntry) up to its await: the fetch is started
SendLog(lg, logEntry, by) ==
    LET f == [by |-> by, cycle |-> IF by = "processQueue" THEN lg.cycle ELSE 0]
    IN  [lg EXCEPT !.fetches = @ (+) SetToBag({f}),
                   !.sent = @ \cup {[id |-> logEntry.id, by |-> f.by,
                                     cycle |-> f.cycle]}]

\* logsToProcess.map(log => this.sendLog(log))
RECURSIVE SendAll(_, _)
SendAll(lg, logs) ==
    IF logs = <<>> THEN lg
    ELSE SendAll(SendLog(lg, Head(logs), "processQueue"), Tail(logs))

\* processQueue() up to its return or its await
ProcessQueue(lg) ==
    IF lg.isProcessing \/ lg.logQueue = <<>>
    THEN [lg EXCEPT !.timers = @ + 1]
    ELSE SendAll([lg EXCEPT !.isProcessing = TRUE, !.logsToProcess = lg.logQueue,
                            !.logQueue = <<>>, !.cycle = @ + 1,
                            !.rejected = FALSE, !.failed = FALSE],
                 lg.logQueue)

\* Logger.getInstance(): the constructor calls processQueue
NewLogger == ProcessQueue(UnstartedLogger)

\* Log(stack, level, ...) up to its return or its await: the entry is
\* queued, and an error entry is sent at once as well
Log(lg, level) ==
    LET logEntry == [id |-> lg.nextLog, level |-> level]
        pushed == [lg EXCEPT !.logQueue = Append(@, logEntry), !.nextLog = @ + 1,
                             !.during = Append(@, IF lg.isProcessing
                                                  THEN lg.cycle ELSE 0)]
    IN  IF level = "error" THEN SendLog(pushed, logEntry, "Log") ELSE pushed

\* the logger calls of one synchronous stretch of code, in order
RECURSIVE LogAll(_, _)
LogAll(lg, levels) ==
    IF levels = <<>> THEN lg ELSE LogAll(Log(lg, Head(levels)), Tail(levels))

\* mutant: sendLog lets the failure of its fetch out
SendLogOutcome_Rethrown(result) ==
    IF result = "ok" THEN "fulfilled" ELSE "rejected"

\* the promise of sendLog: a response that is not ok is written to the
\* console, and so is an error caught by the try around the fetch
SendLogOutcome(result) == "fulfilled"

\* sendLog resumed with the result of its fetch
FetchSettled(lg, f, result) ==
    LET ofBatch == lg.isProcessing /\ f.by = "processQueue" /\ f.cycle = lg.cycle
    IN  [lg EXCEPT !.fetches = @ (-) SetToBag({f}),
                   !.failed = @ \/ (ofBatch /\ result # "ok"),
                   !.rejected = @ \/ (ofBatch /\ SendLogOutcome(result) = "rejected")]

\* Promise.all: rejected with the first sendLog that rejects, fulfilled when
\* every sendLog has fulfilled
PromiseAllSettled(lg) ==
    \/ lg.rejected
    \/ ~BagIn([by |-> "processQueue", cycle |-> lg.cycle], lg.fetches)

\* processQueue resumed after its await: the catch block when Promise.all
\* rejected, then isProcessing = false and the next timer
ResumedProcessQueue(lg) ==
    [lg EXCEPT !.logQueue = IF lg.rejected THEN lg.logsToProcess \o @ ELSE @,
               !.isProcessing = FALSE, !.logsToProcess = <<>>,
               !.timers = @ + 1]

-----------------------------------------------------------------------------
(* State machine *)

NoSettled == [ok |-> FALSE, shortUrl |-> <<>>, error |-> <<>>, draws |-> 0]

\* A createUrls call: its locals, the promise it returns (outcome, thrown),
\* and for the properties: the instant of the call (at), the stored value at
\* the call (before), the setItem calls made (writes) and whether one threw.
IdleCreate ==
    [pc |-> "idle", requests |-> <<>>, valid |-> <<>>, k |-> 0,
     settled |-> NoSettled, success |-> <<>>, errors |-> <<>>,
     at |-> 0, outcome |-> "none", thrown |-> <<>>,
     writes |-> 0, failed |-> FALSE, before |-> <<>>]

NoClick == [id |-> 0, timestamp |-> 0, referrer |-> "", userAgent |-> "",
            geoLocation |-> [country |-> <<>>, city |-> <<>>]]

IdleRedirect ==
    [pc |-> "idle", shortcode |-> <<>>, shortUrl |-> <<>>, clickEvent |-> NoClick,
     at |-> 0, result |-> <<>>, outcome |-> "none",
     writes |-> 0, failed |-> FALSE, before |-> <<>>]

\* A call on the exported storageService: the method and its arguments, and
\* for the properties the stored value at the call, the collection handed to
\* saveUrls, the setItem calls made and whether one threw.
IdleDirect ==
    [op |-> "none", shortcode |-> <<>>, clickEvent |-> NoClick,
     before |-> <<>>, saved |-> <<>>, writes |-> 0, failed |-> FALSE]

\* no invocation beside create and redir
NoCalls == <<>>

\* The specifications of UrlService and StorageService leave the logger out,
\* whose state no call of theirs reads, and have no further invocation in flight.
CoreOnly == UNCHANGED <<logger, calls>>

Init ==
    /\ localStorage = <<>>
    /\ now = 0
    /\ nextId = 1
    /\ create = IdleCreate
    /\ redir = IdleRedirect
    /\ direct = IdleDirect
    /\ logger = NewLogger
    /\ calls = NoCalls

urlsNow == LoadUrls(localStorage)

\* saveUrls(urls): setItem stores the serialized collection, or throws
SaveUrls(urls) == localStorage' = <<Serialize(urls)>>

\* setItem throws (quota): the stored value stays, saveUrls rethrows
SaveThrows == localStorage' = localStorage

(* createUrls up to its first await: validation, the conversion of the      *)
(* validation errors, and createSingleUrl of the first valid request.  With *)
(* no valid request the call runs to its return.                            *)
CallCreateUrls(requests) ==
    LET v == ValidateUrlRequests(requests)
    IN  /\ create.pc = "idle"
        /\ v.valid # <<>> => nextId <= MaxIds
        /\ IF v.valid = <<>>
           THEN /\ create' = [IdleCreate EXCEPT
                                !.pc = "done", !.requests = requests, !.at = now,
                                !.before = localStorage,
                                !.errors = ConvertErrors(v.errors),
                                !.outcome = "returned"]
                /\ UNCHANGED nextId
           ELSE \E stream \in StreamsFor(v.valid[1]) :
                LET r == CreateSingleUrl(localStorage, v.valid[1], stream, now, nextId)
                IN  /\ create' = [IdleCreate EXCEPT
                                    !.pc = "awaiting", !.requests = requests,
                                    !.valid = v.valid, !.k = 1, !.settled = r,
                                    !.at = now, !.before = localStorage,
                                    !.errors = ConvertErrors(v.errors)]
                    /\ nextId' = IF r.ok THEN nextId + 1 ELSE nextId
        /\ UNCHANGED <<localStorage, now, redir, direct>>

\* mutant: the catch block swallows the error
Collected_Swallow(c) ==
    IF c.settled.ok
    THEN [c EXCEPT !.success = Append(@, c.settled.shortUrl[1])]
    ELSE c

\* the loop body after the await: success.push, or the catch block
Collected(c) ==
    IF c.settled.ok
    THEN [c EXCEPT !.success = Append(@, c.settled.shortUrl[1])]
    ELSE [c EXCEPT !.errors =
            Append(@, [index |-> OriginalIndex(c.requests, c.valid[c.k]),
                       error |-> c.settled.error])]

\* mutant: an item that failed ends the loop
LoopEnds_OnError(c) == c.k = Len(c.valid) \/ ~c.settled.ok

\* for (const request of valid): no valid request is left
LoopEnds(c) == c.k = Len(c.valid)

(* createUrls resumed with a further valid request to process. *)
ResumeNext ==
    /\ create.pc = "awaiting"
    /\ ~LoopEnds(create)
    /\ \E stream \in StreamsFor(create.valid[create.k + 1]) :
        LET c == Collected(create)
            r == CreateSingleUrl(localStorage, c.valid[c.k + 1], stream, now, nextId)
        IN  /\ create' = [c EXCEPT !.k = @ + 1, !.settled = r]
            /\ nextId' = IF r.ok THEN nextId + 1 ELSE nextId
    /\ UNCHANGED <<localStorage, now, redir, direct>>

\* mutant: addUrls is called whatever the loop has created
SuccessNotEmpty_Always(c) == TRUE

\* if (success.length > 0)
SuccessNotEmpty(c) == c.success # <<>>

\* mutant: createUrls swallows the error addUrls throws and responds
CreateRejected_Swallowed(c) ==
    [c EXCEPT !.pc = "done", !.outcome = "returned",
              !.writes = @ + 1, !.failed = TRUE]

\* addUrls throws out of createUrls (no try around it): the promise rejects
CreateRejected(c) ==
    [c EXCEPT !.pc = "done", !.outcome = "rejected", !.thrown = <<MsgStorage>>,
              !.writes = @ + 1, !.failed = TRUE]

(* createUrls resumed after the last valid request: addUrls when something  *)
(* was created (setItem may throw, which rejects the call), then the return.*)
ResumeLast ==
    /\ create.pc = "awaiting"
    /\ LoopEnds(create)
    /\ LET c == [Collected(create) EXCEPT !.settled = NoSettled]
       IN  IF ~SuccessNotEmpty(c)
           THEN /\ create' = [c EXCEPT !.pc = "done", !.outcome = "returned"]
                /\ UNCHANGED localStorage
           ELSE \/ /\ SaveUrls(AddUrlsValue(localStorage, c.success))
                   /\ create' = [c EXCEPT !.pc = "done", !.outcome = "returned",
                                          !.writes = @ + 1]
                \/ /\ SaveThrows
                   /\ create' = CreateRejected(c)
    /\ UNCHANGED <<now, nextId, redir, direct>>

\* the caller takes the response
ReturnCreateUrls ==
    /\ create.pc = "done"
    /\ create' = IdleCreate
    /\ UNCHANGED <<localStorage, now, nextId, redir, direct>>

(* redirectUrl up to its await of getGeoLocation. *)
CallRedirect(shortcode) ==
    LET found == FindByShortcode(localStorage, shortcode, now)
    IN  /\ redir.pc = "idle"
        /\ IF found = <<>>
           THEN /\ redir' = [IdleRedirect EXCEPT
                               !.pc = "done", !.shortcode = shortcode, !.at = now,
                               !.before = localStorage,
                               !.result = <<MsgNotFound>>, !.outcome = "rejected"]
                /\ UNCHANGED nextId
           ELSE /\ nextId <= MaxIds + MaxClicks
                /\ redir' = [IdleRedirect EXCEPT
                               !.pc = "awaiting", !.shortcode = shortcode,
                               !.at = now, !.before = localStorage,
                               !.shortUrl = found,
                               !.clickEvent = [NoClick EXCEPT
                                   !.id = nextId, !.timestamp = now,
                                   !.referrer = "direct", !.userAgent = "ua"]]
                /\ nextId' = nextId + 1
        /\ UNCHANGED <<localStorage, now, create, direct>>

(* redirectUrl resumed with the geolocation: recordClick, then the return.  *)
ResumeRedirect(geo) ==
    /\ redir.pc = "awaiting"
    /\ LET click == [redir.clickEvent EXCEPT !.geoLocation = geo]
           r == [redir EXCEPT !.clickEvent = click, !.pc = "done"]
       IN  IF ~RecordClickFinds(localStorage, redir.shortcode)
           THEN /\ redir' = [r EXCEPT !.result = r.shortUrl[1].originalUrl,
                                      !.outcome = "returned"]
                /\ UNCHANGED localStorage
           ELSE \/ /\ SaveUrls(RecordClickValue(localStorage, redir.shortcode, click))
                   /\ redir' = [r EXCEPT !.result = r.shortUrl[1].originalUrl,
                                         !.outcome = "returned",
                                         !.writes = @ + 1]
                \/ /\ SaveThrows
                   /\ redir' = [r EXCEPT !.result = <<MsgStorage>>,
                                         !.outcome = "rejected",
                                         !.writes = @ + 1, !.failed = TRUE]
    /\ UNCHANGED <<now, nextId, create, direct>>

ReturnRedirect ==
    /\ redir.pc = "done"
    /\ redir' = IdleRedirect
    /\ UNCHANGED <<localStorage, now, nextId, create, direct>>

\* clearAll(): removeItem
ClearAll ==
    /\ localStorage # <<>>
    /\ localStorage' = <<>>
    /\ UNCHANGED <<now, nextId, create, redir, direct>>

\* a minute passes
Tick ==
    /\ now < MaxTicks * MsPerMinute
    /\ now' = now + MsPerMinute
    /\ UNCHANGED <<localStorage, nextId, create, redir, direct>>

\* One call at a time: the next call is made when the previous one has
\* returned.  createUrls awaits promises that are already settled, so it
\* resumes in the microtask queue of the task that called it: no time passes
\* until it has returned.  redirectUrl awaits a network fetch, which takes time.
Next ==
    \/ \E requests \in Batches : redir.pc = "idle" /\ CallCreateUrls(requests) /\ CoreOnly
    \/ ResumeNext /\ CoreOnly
    \/ ResumeLast /\ CoreOnly
    \/ ReturnCreateUrls /\ CoreOnly
    \/ \E shortcode \in RedirectCodes : create.pc = "idle" /\ CallRedirect(shortcode) /\ CoreOnly
    \/ \E geo \in GeoResults : ResumeRedirect(geo) /\ CoreOnly
    \/ ReturnRedirect /\ CoreOnly
    \/ create.pc = "idle" /\ redir.pc = "idle" /\ ClearAll /\ CoreOnly
    \/ create.pc = "idle" /\ redir.pc \in {"idle", "awaiting"} /\ Tick /\ CoreOnly

Spec == Init /\ [][Next]_vars

(* createUrls over the values validityMinutes can take. *)

ValidityValues ==
    { <<>>, <<Num(1)>>, <<Num(MaxValidity)>>,
      <<Num(0)>>, <<Num(-1)>>, <<Num(MaxValidity + 1)>>, <<Frac(3, 2)>>, <<NaN>> }

ValidityBatches ==
    UNION { SeqsOfLen({ Req(OkUrl, v, <<>>) : v \in ValidityValues }, n) :
                n \in 1..MaxBatch }

NextValidity ==
    \/ \E requests \in ValidityBatches : CallCreateUrls(requests) /\ CoreOnly
    \/ ResumeNext /\ CoreOnly
    \/ ResumeLast /\ CoreOnly
    \/ ReturnCreateUrls /\ CoreOnly
    \/ create.pc = "idle" /\ Tick /\ CoreOnly

SpecValidity == Init /\ [][NextValidity]_vars

(* storageService is an exported singleton: the calls a caller can make on  *)
(* it without UrlService.                                                   *)

\* the codes and validities of the records handed to addUrls
DirectCodes == GenCodes \cup { Str(3, "a") }
DirectRequests == { Req(OkUrl, <<>>, <<>>), Req(OkUrl, <<Num(1)>>, <<>>) }

\* storageService.addUrls([shortUrl]) with a record made at this instant
DirectAddUrls(request, shortcode) ==
    /\ nextId <= MaxIds + MaxClicks
    /\ nextId' = nextId + 1
    /\ LET shortUrl == NewShortUrl(nextId, request, shortcode, FALSE, now)
           d == [IdleDirect EXCEPT
                    !.op = "addUrls", !.shortcode = shortcode,
                    !.before = localStorage, !.writes = 1,
                    !.saved = <<AddUrlsValue(localStorage, <<shortUrl>>)>>]
       IN  \/ /\ SaveUrls(AddUrlsValue(localStorage, <<shortUrl>>))
              /\ direct' = d
           \/ /\ SaveThrows
              /\ direct' = [d EXCEPT !.failed = TRUE]
    /\ UNCHANGED <<now, create, redir>>

\* storageService.recordClick(shortcode, clickEvent)
DirectRecordClick(shortcode, geo) ==
    /\ nextId <= MaxIds + MaxClicks
    /\ nextId' = nextId + 1
    /\ LET click == [NoClick EXCEPT !.id = nextId, !.timestamp = now,
                                    !.referrer = "direct", !.userAgent = "ua",
                                    !.geoLocation = geo]
           d == [IdleDirect EXCEPT !.op = "recordClick", !.shortcode = shortcode,
                                   !.clickEvent = click, !.before = localStorage]
       IN  IF ~RecordClickFinds(localStorage, shortcode)
           THEN /\ UNCHANGED localStorage
                /\ direct' = d
           ELSE LET urls == RecordClickValue(localStorage, shortcode, click)
                IN  \/ /\ SaveUrls(urls)
                       /\ direct' = [d EXCEPT !.writes = 1, !.saved = <<urls>>]
                    \/ /\ SaveThrows
                       /\ direct' = [d EXCEPT !.writes = 1, !.saved = <<urls>>,
                                              !.failed = TRUE]
    /\ UNCHANGED <<now, create, redir>>

\* storageService.clearAll()
DirectClearAll ==
    /\ localStorage # <<>>
    /\ localStorage' = <<>>
    /\ direct' = [IdleDirect EXCEPT !.op = "clearAll", !.before = localStorage]
    /\ UNCHANGED <<now, nextId, create, redir>>

\* The store under its own callers and redirectUrl: while a redirectUrl call
\* awaits the geolocation, time passes and other callers run.
NextStore ==
    \/ \E request \in DirectRequests, shortcode \in DirectCodes :
            redir.pc # "done" /\ DirectAddUrls(request, shortcode) /\ CoreOnly
    \/ \E shortcode \in RedirectCodes, geo \in GeoResults :
            redir.pc # "done" /\ DirectRecordClick(shortcode, geo) /\ CoreOnly
    \/ redir.pc # "done" /\ DirectClearAll /\ CoreOnly
    \/ \E shortcode \in RedirectCodes : CallRedirect(shortcode) /\ CoreOnly
    \/ \E geo \in GeoResults : ResumeRedirect(geo) /\ CoreOnly
    \/ ReturnRedirect /\ CoreOnly
    \/ redir.pc # "done" /\ Tick /\ CoreOnly

SpecStore == Init /\ [][NextStore]_vars

(* The stored text damaged from outside (another program, a cleared or      *)
(* blocked storage), and the store read and written after that.             *)

Damage(kind) ==
    /\ ~LoadThrows(localStorage)
    /\ localStorage' =
          <<Append(IF localStorage = <<>> THEN <<>> ELSE localStorage[1],
                   Unloadable(kind))>>
    /\ UNCHANGED <<now, nextId, create, redir, direct>>

NextDamaged ==
    \/ \E shortcode \in GenCodes :
            redir.pc # "done" /\ DirectAddUrls(Req(OkUrl, <<Num(1)>>, <<>>), shortcode) /\ CoreOnly
    \/ \E kind \in LoadFailures : redir.pc # "done" /\ Damage(kind) /\ CoreOnly
    \/ \E shortcode \in GenCodes : CallRedirect(shortcode) /\ CoreOnly
    \/ \E geo \in GeoResults : ResumeRedirect(geo) /\ CoreOnly
    \/ ReturnRedirect /\ CoreOnly
    \/ redir.pc # "done" /\ Tick /\ CoreOnly

SpecDamaged == Init /\ [][NextDamaged]_vars

(* The store written and read back, from instants that fill every part of  *)
(* the text of a date.                                                      *)

Instants == { 0, 999, MsPerDay + MsPerHour + 2 * MsPerMinute + 3 * MsPerSecond + 4 }

InitAt ==
    /\ localStorage = <<>>
    /\ now \in Instants
    /\ nextId = 1
    /\ create = IdleCreate
    /\ redir = IdleRedirect
    /\ direct = IdleDirect
    /\ logger = NewLogger
    /\ calls = NoCalls

NextRoundTrip ==
    \/ \E request \in DirectRequests, shortcode \in DirectCodes :
            DirectAddUrls(request, shortcode) /\ CoreOnly
    \/ \E shortcode \in RedirectCodes, geo \in GeoResults :
            DirectRecordClick(shortcode, geo) /\ CoreOnly
    \/ DirectClearAll /\ CoreOnly
    \/ Tick /\ CoreOnly

SpecRoundTrip == InitAt /\ [][NextRoundTrip]_vars

(* The store filled by addUrls calls, for what its readers return. *)

NextPages ==
    \/ \E shortcode \in GenCodes :
            DirectAddUrls(Req(OkUrl, <<>>, <<>>), shortcode) /\ CoreOnly
    \/ DirectClearAll /\ CoreOnly
    \/ Tick /\ CoreOnly

SpecPages == Init /\ [][NextPages]_vars

(* The logger: calls of Log, the timer of processQueue, the fetches. *)

LogLevels == {"info", "error"}

\* logger.info(...), logger.error(...) of some caller
LoggerLog(level) ==
    /\ logger.nextLog <= MaxLogs
    /\ logger' = Log(logger, level)
    /\ UNCHANGED <<localStorage, now, nextId, create, redir, direct, calls>>

\* a setTimeout callback runs: processQueue()
TimerFires ==
    /\ logger.timers > 0
    /\ logger' = ProcessQueue([logger EXCEPT !.timers = @ - 1])
    /\ UNCHANGED <<localStorage, now, nextId, create, redir, direct, calls>>

\* mutant: redirectUrl waits for the delivery and fails with it
FetchSettles_Awaited(f, result) ==
    /\ BagIn(f, logger.fetches)
    /\ logger' = FetchSettled(logger, f, result)
    /\ redir' = IF result # "ok" /\ redir.pc = "awaiting"
                THEN [redir EXCEPT !.pc = "done", !.outcome = "rejected"]
                ELSE redir
    /\ UNCHANGED <<localStorage, now, nextId, create, direct, calls>>

\* a fetch of sendLog settles
FetchSettles(f, result) ==
    /\ BagIn(f, logger.fetches)
    /\ logger' = FetchSettled(logger, f, result)
    /\ UNCHANGED <<localStorage, now, nextId, create, redir, direct, calls>>

\* processQueue resumes after await Promise.all
ResumeProcessQueue ==
    /\ logger.isProcessing
    /\ PromiseAllSettled(logger)
    /\ logger' = ResumedProcessQueue(logger)
    /\ UNCHANGED <<localStorage, now, nextId, create, redir, direct, calls>>

\* the callers a fetch in flight can have
LoggerFetches(lg) == BagToSet(lg.fetches)

NextLogger ==
    \/ \E level \in LogLevels : LoggerLog(level)
    \/ TimerFires
    \/ \E f \in LoggerFetches(logger), result \in FetchResults : FetchSettles(f, result)
    \/ ResumeProcessQueue

SpecLogger == Init /\ [][NextLogger]_vars

\* timers fire, fetches settle, and a settled promise resumes its awaiter
FairLogger ==
    /\ WF_vars(TimerFires)
    /\ WF_vars(\E f \in LoggerFetches(logger), result \in FetchResults : FetchSettles(f, result))
    /\ WF_vars(ResumeProcessQueue)

SpecLoggerFair == SpecLogger /\ FairLogger

(* UrlService with its logger calls: each stretch of code between two      *)
(* awaits hands its entries to the logger, in the order of the code.  The   *)
(* timer and the fetches of the logger are tasks of their own, which run    *)
(* when no createUrls call is waiting in the microtask queue.               *)

\* loadUrls: nothing is logged when no item is stored
LoadLogs(ls) ==
    IF ls = <<>> THEN <<>>
    ELSE IF LoadThrows(ls) THEN <<"error">>
    ELSE <<"info">>

\* saveUrls
SaveLogs(failed) == IF failed THEN <<"error">> ELSE <<"info">>

\* validateUrlRequests: a warning for each request validateUrlRequest finds
\* errors in, then the summary
ValidateLogs(requests) ==
    IF Len(requests) = 0 \/ Len(requests) > MAX_URLS THEN <<"warn">>
    ELSE [j \in 1..Cardinality({ i \in 1..Len(requests) :
                                    ValidateUrlRequest(requests[i]) # <<>> }) |-> "warn"]
         \o <<"info">>

\* createSingleUrl(request) that settled as r: isShortcodeInUse loads the
\* store once for a custom code and once for each candidate drawn
CreateSingleLogs(ls, request, r) ==
    LET loads == IF HasCustomShortcode(request) THEN 1 ELSE r.draws
        RECURSIVE Times(_)
        Times(n) == IF n = 0 THEN <<>> ELSE LoadLogs(ls) \o Times(n - 1)
    IN  Times(loads) \o (IF r.ok THEN <<"info">> ELSE <<>>)

\* findByShortcode: a warning for a record found expired
FindLogs(ls, shortcode, t) ==
    LET urls == LoadUrls(ls)
        j == FindIndex(urls, shortcode)
    IN  LoadLogs(ls) \o
        (IF j # 0 /\ IsExpiredForLookup(t, urls[j].expiresAt) THEN <<"warn">> ELSE <<>>)

\* getGeoLocation: a warning when the fetch threw
GeoLogs(geo) ==
    IF geo.country = <<>> /\ geo.city = <<>> THEN { <<>>, <<"warn">> } ELSE { <<>> }

\* the calls start while the logger has been handed at most this many entries
MaxLogged == 8

LoggedCallCreateUrls(requests) ==
    /\ logger.nextLog <= MaxLogged
    /\ CallCreateUrls(requests)
    /\ logger' = LogAll(logger,
            <<"info">> \o ValidateLogs(requests) \o
            (IF create'.pc = "done" THEN <<"info">>
             ELSE CreateSingleLogs(localStorage, create'.valid[1], create'.settled)))
    /\ UNCHANGED calls

LoggedResumeNext ==
    /\ ResumeNext
    /\ logger' = LogAll(logger,
            CreateSingleLogs(localStorage, create'.valid[create'.k], create'.settled))
    /\ UNCHANGED calls

LoggedResumeLast ==
    /\ ResumeLast
    /\ logger' = LogAll(logger,
            IF create'.writes = create.writes THEN <<"info">>
            ELSE LoadLogs(localStorage) \o SaveLogs(create'.failed) \o
                 (IF create'.failed THEN <<>> ELSE <<"info", "info">>))
    /\ UNCHANGED calls

LoggedCallRedirect(shortcode) ==
    /\ logger.nextLog <= MaxLogged
    /\ CallRedirect(shortcode)
    /\ logger' = LogAll(logger,
            <<"info">> \o FindLogs(localStorage, shortcode, now) \o
            (IF redir'.pc = "done" THEN <<"warn">> ELSE <<>>))
    /\ UNCHANGED calls

LoggedResumeRedirect(geo) ==
    /\ ResumeRedirect(geo)
    /\ \E geoLogs \in GeoLogs(geo) :
        logger' = LogAll(logger,
            geoLogs \o LoadLogs(localStorage) \o
            (IF redir'.writes = redir.writes THEN <<"warn", "info">>
             ELSE SaveLogs(redir'.failed) \o
                  (IF redir'.failed THEN <<>> ELSE <<"info", "info">>)))
    /\ UNCHANGED calls

\* the batches and the code of the calls made beside the logger
LogBatches ==
    { <<Req(OkUrl, <<>>, <<Str(3, "a")>>)>>,
      <<Req(OkUrl, <<>>, <<Str(3, "a")>>), Req(FtpUrl, <<>>, <<>>),
        Req(OkUrl, <<>>, <<<<"A">> \o Str(2, "a")>>)>> }
LogCodes == { Str(3, "a") }

NextLogging ==
    \/ \E requests \in LogBatches : redir.pc = "idle" /\ LoggedCallCreateUrls(requests)
    \/ LoggedResumeNext
    \/ LoggedResumeLast
    \/ ReturnCreateUrls /\ CoreOnly
    \/ \E shortcode \in LogCodes : create.pc = "idle" /\ LoggedCallRedirect(shortcode)
    \/ \E geo \in GeoResults : LoggedResumeRedirect(geo)
    \/ ReturnRedirect /\ CoreOnly
    \/ create.pc # "awaiting" /\ TimerFires
    \/ \E f \in LoggerFetches(logger), result \in FetchResults :
            create.pc # "awaiting" /\ FetchSettles(f, result)
    \/ create.pc # "awaiting" /\ ResumeProcessQueue

SpecLogging == Init /\ [][NextLogging]_vars

(* Two tabs on one localStorage.  Each tab runs its own thread: between the *)
(* getItem of loadUrls and the setItem of saveUrls of a call in one tab,    *)
(* the other tab may read and write the item.                               *)

Tabs == {"A", "B"}

\* calls the tabs make in all
MaxTabCalls == 3

\* the tab is inside a storageService call
TabBusy(tab) == \E i \in DOMAIN calls : calls[i].tab = tab /\ calls[i].pc = "loaded"

\* addUrls([shortUrl]) in a tab, up to the return of getItem
TabLoadsForAdd(tab, shortcode) ==
    /\ ~TabBusy(tab)
    /\ Len(calls) < MaxTabCalls
    /\ calls' = Append(calls,
            [tab |-> tab, op |-> "addUrls", pc |-> "loaded", read |-> localStorage,
             shortUrl |-> <<NewShortUrl(nextId, Req(OkUrl, <<>>, <<>>),
                                        shortcode, FALSE, now)>>,
             shortcode |-> shortcode, clickEvent |-> NoClick, ok |-> FALSE])
    /\ nextId' = nextId + 1
    /\ UNCHANGED <<localStorage, now, create, redir, direct, logger>>

\* recordClick(shortcode, clickEvent) in a tab, up to the return of getItem,
\* or to its return when no record has the code
TabLoadsForClick(tab, shortcode) ==
    /\ ~TabBusy(tab)
    /\ Len(calls) < MaxTabCalls
    /\ calls' = Append(calls,
            [tab |-> tab, op |-> "recordClick",
             pc |-> IF RecordClickFinds(localStorage, shortcode)
                    THEN "loaded" ELSE "done",
             read |-> localStorage, shortUrl |-> <<>>, shortcode |-> shortcode,
             clickEvent |-> [NoClick EXCEPT !.id = nextId, !.timestamp = now,
                                            !.referrer = "direct", !.userAgent = "ua"],
             ok |-> FALSE])
    /\ nextId' = nextId + 1
    /\ UNCHANGED <<localStorage, now, create, redir, direct, logger>>

\* mutant: the collection is read again at the moment it is written
TabValue_ReadAgain(call) ==
    IF call.op = "addUrls"
    THEN AddUrlsValue(localStorage, call.shortUrl)
    ELSE RecordClickValue(localStorage, call.shortcode, call.clickEvent)

\* the collection the call hands to saveUrls: what it has read, with its
\* records appended or its click pushed
TabValue(call) ==
    IF call.op = "addUrls"
    THEN AddUrlsValue(call.read, call.shortUrl)
    ELSE RecordClickValue(call.read, call.shortcode, call.clickEvent)

\* saveUrls: setItem, after which the call returns; or setItem throws
TabSaves(i) ==
    /\ calls[i].pc = "loaded"
    /\ \/ /\ SaveUrls(TabValue(calls[i]))
          /\ calls' = [calls EXCEPT ![i].pc = "done", ![i].ok = TRUE]
       \/ /\ SaveThrows
          /\ calls' = [calls EXCEPT ![i].pc = "done"]
    /\ UNCHANGED <<now, nextId, create, redir, direct, logger>>

NextTabs ==
    \/ \E tab \in Tabs, shortcode \in GenCodes : TabLoadsForAdd(tab, shortcode)
    \/ \E tab \in Tabs, shortcode \in GenCodes : TabLoadsForClick(tab, shortcode)
    \/ \E i \in 1..MaxTabCalls : i <= Len(calls) /\ TabSaves(i)

SpecTabs == Init /\ [][NextTabs]_vars

(* Invocations of createUrls and redirectUrl in flight together on the one  *)
(* thread of a tab: a call runs from one await to the next without          *)
(* interruption, and while it is suspended other calls start and resume.    *)
(* calls keeps every invocation, the returned ones too.                     *)

\* invocations made in all
MaxOverlap == 3

\* the batches and the code of the overlapping calls
OverlapBatches ==
    { <<Req(OkUrl, <<>>, <<Str(3, "a")>>)>>,
      <<Req(OkUrl, <<>>, <<Str(3, "a")>>), Req(OkUrl, <<>>, <<<<"A">> \o Str(2, "a")>>)>> }
OverlapCodes == { Str(3, "a") }

\* the invocations suspended at an await
InFlight ==
    { k \in DOMAIN calls : calls[k].c.pc = "awaiting" \/ calls[k].r.pc = "awaiting" }

\* an invocation: its locals, and for the properties the invocations that
\* were in flight when it was made
CreateInvocation(c) ==
    [kind |-> "createUrls", c |-> c, r |-> IdleRedirect, over |-> InFlight]
RedirectInvocation(r) ==
    [kind |-> "redirectUrl", c |-> IdleCreate, r |-> r, over |-> InFlight]

\* createUrls(requests) up to its first await, or to its return
OverlapCallCreateUrls(requests) ==
    LET v == ValidateUrlRequests(requests)
    IN  /\ Len(calls) < MaxOverlap
        /\ IF v.valid = <<>>
           THEN /\ calls' = Append(calls, CreateInvocation(
                                [IdleCreate EXCEPT
                                    !.pc = "done", !.requests = requests, !.at = now,
                                    !.before = localStorage,
                                    !.errors = ConvertErrors(v.errors),
                                    !.outcome = "returned"]))
                /\ UNCHANGED nextId
           ELSE \E stream \in StreamsFor(v.valid[1]) :
                LET r == CreateSingleUrl(localStorage, v.valid[1], stream, now, nextId)
                IN  /\ calls' = Append(calls, CreateInvocation(
                                [IdleCreate EXCEPT
                                    !.pc = "awaiting", !.requests = requests,
                                    !.valid = v.valid, !.k = 1, !.settled = r,
                                    !.at = now, !.before = localStorage,
                                    !.errors = ConvertErrors(v.errors)]))
                    /\ nextId' = IF r.ok THEN nextId + 1 ELSE nextId
        /\ UNCHANGED <<localStorage, now, create, redir, direct, logger>>

\* invocation i of createUrls resumed with a further valid request to process
OverlapResumeNext(i) ==
    /\ calls[i].c.pc = "awaiting"
    /\ ~LoopEnds(calls[i].c)
    /\ \E stream \in StreamsFor(calls[i].c.valid[calls[i].c.k + 1]) :
        LET c == Collected(calls[i].c)
            r == CreateSingleUrl(localStorage, c.valid[c.k + 1], stream, now, nextId)
        IN  /\ calls' = [calls EXCEPT ![i].c = [c EXCEPT !.k = @ + 1, !.settled = r]]
            /\ nextId' = IF r.ok THEN nextId + 1 ELSE nextId
    /\ UNCHANGED <<localStorage, now, create, redir, direct, logger>>

\* invocation i of createUrls resumed after its last valid request
OverlapResumeLast(i) ==
    /\ calls[i].c.pc = "awaiting"
    /\ LoopEnds(calls[i].c)
    /\ LET c == [Collected(calls[i].c) EXCEPT !.settled = NoSettled]
       IN  IF ~SuccessNotEmpty(c)
           THEN /\ calls' = [calls EXCEPT
                                ![i].c = [c EXCEPT !.pc = "done", !.outcome = "returned"]]
                /\ UNCHANGED localStorage
           ELSE \/ /\ SaveUrls(AddUrlsValue(localStorage, c.success))
                   /\ calls' = [calls EXCEPT
                                ![i].c = [c EXCEPT !.pc = "done", !.outcome = "returned",
                                                   !.writes = @ + 1]]
                \/ /\ SaveThrows
                   /\ calls' = [calls EXCEPT ![i].c = CreateRejected(c)]
    /\ UNCHANGED <<now, nextId, create, redir, direct, logger>>

\* redirectUrl(shortcode) up to its await of getGeoLocation, or to its throw
OverlapCallRedirect(shortcode) ==
    LET found == FindByShortcode(localStorage, shortcode, now)
    IN  /\ Len(calls) < MaxOverlap
        /\ IF found = <<>>
           THEN /\ calls' = Append(calls, RedirectInvocation(
                                [IdleRedirect EXCEPT
                                    !.pc = "done", !.shortcode = shortcode, !.at = now,
                                    !.before = localStorage,
                                    !.result = <<MsgNotFound>>, !.outcome = "rejected"]))
                /\ UNCHANGED nextId
           ELSE /\ calls' = Append(calls, RedirectInvocation(
                                [IdleRedirect EXCEPT
                                    !.pc = "awaiting", !.shortcode = shortcode,
                                    !.at = now, !.before = localStorage,
                                    !.shortUrl = found,
                                    !.clickEvent = [NoClick EXCEPT
                                        !.id = nextId, !.timestamp = now,
                                        !.referrer = "direct", !.userAgent = "ua"]]))
                /\ nextId' = nextId + 1
        /\ UNCHANGED <<localStorage, now, create, redir, direct, logger>>

\* invocation i of redirectUrl resumed with the geolocation
OverlapResumeRedirect(i, geo) ==
    /\ calls[i].r.pc = "awaiting"
    /\ LET click == [calls[i].r.clickEvent EXCEPT !.geoLocation = geo]
           r == [calls[i].r EXCEPT !.clickEvent = click, !.pc = "done"]
       IN  IF ~RecordClickFinds(localStorage, r.shortcode)
           THEN /\ calls' = [calls EXCEPT
                                ![i].r = [r EXCEPT !.result = r.shortUrl[1].originalUrl,
                                                   !.outcome = "returned"]]
                /\ UNCHANGED localStorage
           ELSE \/ /\ SaveUrls(RecordClickValue(localStorage, r.shortcode, click))
                   /\ calls' = [calls EXCEPT
                                ![i].r = [r EXCEPT !.result = r.shortUrl[1].originalUrl,
                                                   !.outcome = "returned",
                                                   !.writes = @ + 1]]
                \/ /\ SaveThrows
                   /\ calls' = [calls EXCEPT
                                ![i].r = [r EXCEPT !.result = <<MsgStorage>>,
                                                   !.outcome = "rejected",
                                                   !.writes = @ + 1, !.failed = TRUE]]
    /\ UNCHANGED <<now, nextId, create, redir, direct, logger>>

NextOverlap ==
    \/ \E requests \in OverlapBatches : OverlapCallCreateUrls(requests)
    \/ \E i \in 1..MaxOverlap : i <= Len(calls) /\ OverlapResumeNext(i)
    \/ \E i \in 1..MaxOverlap : i <= Len(calls) /\ OverlapResumeLast(i)
    \/ \E shortcode \in OverlapCodes : OverlapCallRedirect(shortcode)
    \/ \E i \in 1..MaxOverlap, geo \in GeoResults :
            i <= Len(calls) /\ OverlapResumeRedirect(i, geo)

SpecOverlap == Init /\ [][NextOverlap]_vars

-----------------------------------------------------------------------------
(* Properties *)

\* the response of a createUrls call that returned, for a batch of 1 to 5
Responded ==
    /\ create.pc = "done"
    /\ create.outcome = "returned"
    /\ Len(create.requests) \in 1..MAX_URLS

\* the trimmed custom shortcode of request i
CodeOf(requests, i) == Trim(requests[i].customShortcode[1])

\* request i repeats the custom shortcode of an earlier request of the batch
IsRepeat(requests, i) ==
    /\ HasCustomShortcode(requests[i])
    /\ \E p \in 1..(i - 1) :
        /\ HasCustomShortcode(requests[p])
        /\ CodeOf(requests, p) = CodeOf(requests, i)

\* request i is not passed on to creation
FailsValidation(requests, i) ==
    ValidateUrlRequest(requests[i]) # <<>> \/ IsRepeat(requests, i)

\* the positions (1-based) of the requests that pass validation, in order
ValidPositions(requests) ==
    SelectSeq([i \in 1..Len(requests) |-> i],
              LAMBDA i : ~FailsValidation(requests, i))

\* the identifiers of the records the call in progress has created
CreatedIds == { create.success[j].id : j \in 1..Len(create.success) }

\* a record stored before the call in progress holds shortcode c
StoredBefore(c) ==
    \E j \in 1..Len(urlsNow) :
        urlsNow[j].shortcode = c /\ urlsNow[j].id \notin CreatedIds

(* C1: no two records of the stored collection have the same shortcode.     *)
C1_UniqueShortcodes ==
    \A i \in 1..Len(urlsNow) : \A j \in 1..Len(urlsNow) :
        i # j => urlsNow[i].shortcode # urlsNow[j].shortcode

(* C2: redirect(code) at an instant at or after the expiresAt of the record *)
(* with that code fails with the not-found-or-expired error, the same as    *)
(* for a code never created, and records no click.                          *)
C2_ExpiredRedirectFails ==
    \A j \in 1..Len(urlsNow) :
        ( /\ redir.pc # "idle"
          /\ j = FindIndex(urlsNow, redir.shortcode)
          /\ urlsNow[j].expiresAt <= redir.at )
        => /\ redir.pc = "done"
           /\ redir.outcome = "rejected"
           /\ redir.result = <<MsgNotFound>>
           /\ redir.clickEvent = NoClick

(* C3: every index in the errors of a createUrls response is the position   *)
(* of the request that failed: a validation error carries the index of a    *)
(* request that fails validation, and the error entry the catch block makes *)
(* for the k-th valid request carries that request's own position.          *)
C3_ErrorIndexIsOwnPosition ==
    /\ ( create.pc # "idle" /\ Len(create.requests) \in 1..MAX_URLS )
       => \A j \in 1..(Len(create.requests) - Len(create.valid)) :
            /\ create.errors[j].index + 1 \in 1..Len(create.requests)
            /\ FailsValidation(create.requests, create.errors[j].index + 1)
    /\ ( create.pc = "awaiting" /\ ~create.settled.ok )
       => LET e == Collected(create).errors
          IN  e[Len(e)].index + 1 = ValidPositions(create.requests)[create.k]

(* C4: a createUrls call with 1 to 5 requests that returns has              *)
(* success.length + errors.length = requests.length.                        *)
C4_OneEntryPerRequest ==
    Responded =>
        Len(create.success) + Len(create.errors) = Len(create.requests)

C4_Witness ==
    /\ Responded
    /\ Len(create.requests) = 2
    /\ Len(create.success) = 1
    /\ Len(create.errors) = 1

(* C5 as stated: generation gives up once 10 candidates in a row were in    *)
(* use, with no further candidate drawn.                                    *)
C5_GivesUpAfterTen ==
    ( create.pc = "awaiting" /\ create.settled.error = <<MsgGenFailed>> )
        => create.settled.draws = MaxAttempts

(* C5 amended: generation gives up once 11 candidates in a row (the first   *)
(* draw and 10 retries) were in use, draws no further candidate, and the    *)
(* failure is reported by the catch block as a creation error of the item;  *)
(* a generated code that is accepted took at most 11 draws.                 *)
C5_GivesUpAfterEleven ==
    create.pc = "awaiting" =>
        /\ create.settled.error = <<MsgGenFailed>>
            => /\ create.settled.draws = MaxAttempts + 1
               /\ ~HasCustomShortcode(create.valid[create.k])
               /\ LET e == Collected(create).errors
                  IN  e[Len(e)].error = <<MsgGenFailed>>
        /\ ( create.settled.ok /\ ~create.settled.shortUrl[1].isCustomShortcode )
            => /\ create.settled.draws \in 1..(MaxAttempts + 1)
               /\ ~StoredBefore(create.settled.shortUrl[1].shortcode)

C5_Witness ==
    /\ create.pc = "awaiting"
    /\ create.settled.error = <<MsgGenFailed>>
    /\ create.settled.draws = MaxAttempts + 1

\* what a step keeps of the stored collection
RecordsKept ==
    LET before == LoadUrls(localStorage)
        after == LoadUrls(localStorage')
    IN  /\ Len(before) <= Len(after)
        /\ \A j \in 1..Len(before) :
            /\ after[j].id = before[j].id
            /\ after[j].originalUrl = before[j].originalUrl
            /\ after[j].shortcode = before[j].shortcode
            /\ after[j].createdAt = before[j].createdAt
            /\ after[j].expiresAt = before[j].expiresAt
            /\ after[j].validityMinutes = before[j].validityMinutes
            /\ after[j].isCustomShortcode = before[j].isCustomShortcode
            /\ Len(before[j].clicks) <= Len(after[j].clicks)
            /\ SubSeq(after[j].clicks, 1, Len(before[j].clicks)) = before[j].clicks

(* C6: every step other than the bulk clear keeps every stored record, at   *)
(* its place, with its id, originalUrl, shortcode, createdAt, expiresAt,    *)
(* validityMinutes and isCustomShortcode, and with its clicks a prefix of   *)
(* its clicks afterwards.                                                   *)
C6_RecordsKept == [][ClearAll \/ RecordsKept]_vars

\* a second batch was added to a collection that held a record
C6_Witness ==
    /\ Len(urlsNow) = 2
    /\ urlsNow[1].createdAt < urlsNow[2].createdAt

(* C7: when the first request of a batch with a given trimmed custom        *)
(* shortcode is valid and the code is not stored, and a later request       *)
(* repeats the code, exactly one record with that code is created, for the  *)
(* first request, and every repeat is reported with the duplicate error at  *)
(* its own index.                                                           *)
C7_FirstOfRepeatsCreated ==
    Responded =>
        \A i \in 1..Len(create.requests) : \A j \in 1..Len(create.requests) :
            ( /\ i < j
              /\ HasCustomShortcode(create.requests[i])
              /\ HasCustomShortcode(create.requests[j])
              /\ CodeOf(create.requests, i) = CodeOf(create.requests, j)
              /\ ~IsRepeat(create.requests, i)
              /\ ValidateUrlRequest(create.requests[i]) = <<>>
              /\ ~StoredBefore(CodeOf(create.requests, i)) )
            => /\ Cardinality({ n \in 1..Len(create.success) :
                    create.success[n].shortcode = CodeOf(create.requests, i) }) = 1
               /\ \E n \in 1..Len(create.success) :
                    /\ create.success[n].shortcode = CodeOf(create.requests, i)
                    /\ create.success[n].isCustomShortcode
                    /\ create.success[n].originalUrl = Trim(create.requests[i].originalUrl)
                    /\ create.success[n].validityMinutes =
                            ValidityOrDefault(create.requests[i])
               /\ Cardinality({ n \in 1..Len(create.errors) :
                    create.errors[n].index = j - 1 }) = 1
               /\ \E n \in 1..Len(create.errors) :
                    /\ create.errors[n].index = j - 1
                    /\ \E m \in 1..Len(create.errors[n].error) :
                        create.errors[n].error[m] = MsgDuplicate

\* "aaa" and " aaa" in one batch, both otherwise valid
C7_Witness ==
    /\ Responded
    /\ Len(create.requests) = 2
    /\ HasCustomShortcode(create.requests[1])
    /\ HasCustomShortcode(create.requests[2])
    /\ create.requests[1].customShortcode # create.requests[2].customShortcode
    /\ CodeOf(create.requests, 1) = CodeOf(create.requests, 2)
    /\ ValidateUrlRequest(create.requests[1]) = <<>>
    /\ ValidateUrlRequest(create.requests[2]) = <<>>
    /\ Len(create.success) = 1
    /\ create.errors = <<[index |-> 1, error |-> <<MsgDuplicate>>]>>

(* C8: createUrls with an empty batch or with more than 5 requests returns  *)
(* no success and one error, at index 0, with the general message, passes   *)
(* no request on to creation, and leaves the store as it was.               *)
C8_BadSizeRejected ==
    [][ ( /\ create.pc = "idle"
          /\ create'.pc # "idle"
          /\ Len(create'.requests) \notin 1..MAX_URLS )
        => /\ create'.pc = "done"
           /\ create'.outcome = "returned"
           /\ create'.success = <<>>
           /\ create'.valid = <<>>
           /\ create'.writes = 0
           /\ create'.errors =
                <<[index |-> 0,
                   error |-> <<IF Len(create'.requests) = 0
                               THEN MsgEmpty ELSE MsgTooMany>>]>>
           /\ nextId' = nextId
           /\ localStorage' = localStorage ]_vars

C8_Witness ==
    /\ create.pc = "done"
    /\ Len(create.requests) = MAX_URLS + 1
    /\ create.errors = <<[index |-> 0, error |-> <<MsgTooMany>>]>>
    /\ urlsNow # <<>>

(* C9: a valid request whose custom shortcode is the shortcode of a record  *)
(* stored before the call, expired or not, is reported with the             *)
(* already-in-use error at its index, and no record with that code is       *)
(* created.                                                                 *)
C9_StoredCodeRejected ==
    Responded =>
        \A i \in 1..Len(create.requests) :
            ( /\ HasCustomShortcode(create.requests[i])
              /\ ~FailsValidation(create.requests, i)
              /\ StoredBefore(CodeOf(create.requests, i)) )
            => /\ \E n \in 1..Len(create.errors) :
                    create.errors[n] = [index |-> i - 1, error |-> <<MsgInUse>>]
               /\ \A n \in 1..Len(create.success) :
                    create.success[n].shortcode # CodeOf(create.requests, i)

\* the code of an expired record was asked for and refused
C9_Witness ==
    /\ Responded
    /\ \E i \in 1..Len(create.requests) : \E j \in 1..Len(urlsNow) :
        /\ HasCustomShortcode(create.requests[i])
        /\ ~FailsValidation(create.requests, i)
        /\ urlsNow[j].shortcode = CodeOf(create.requests, i)
        /\ urlsNow[j].expiresAt < create.at
        /\ \E n \in 1..Len(create.errors) :
            create.errors[n] = [index |-> i - 1, error |-> <<MsgInUse>>]

(* C10: a failing item does not end the batch: in a response, every valid   *)
(* request was processed (a record or a creation error each), every valid   *)
(* request with a custom shortcode not stored before the call has its       *)
(* record in success, and every record in success is stored.                *)
C10_BatchNotAborted ==
    Responded =>
        /\ create.k = Len(ValidPositions(create.requests))
        /\ Len(create.success) + Len(create.errors)
                - (Len(create.requests) - Len(ValidPositions(create.requests)))
            = Len(ValidPositions(create.requests))
        /\ \A i \in 1..Len(create.requests) :
            ( /\ HasCustomShortcode(create.requests[i])
              /\ ~FailsValidation(create.requests, i)
              /\ ~StoredBefore(CodeOf(create.requests, i)) )
            => \E n \in 1..Len(create.success) :
                /\ create.success[n].shortcode = CodeOf(create.requests, i)
                /\ create.success[n].isCustomShortcode
        /\ \A n \in 1..Len(create.success) :
            \E j \in 1..Len(urlsNow) : urlsNow[j] = create.success[n]

\* the first request fails at creation and the second one is created
C10_Witness ==
    /\ Responded
    /\ Len(create.requests) = 2
    /\ Len(ValidPositions(create.requests)) = 2
    /\ create.errors = <<[index |-> 0, error |-> <<MsgInUse>>]>>
    /\ Len(create.success) = 1
    /\ HasCustomShortcode(create.requests[2])

(* C11: when the write to the store fails during createUrls or during the   *)
(* click recording of redirect, the operation fails with the storage error  *)
(* (no response, no URL), exactly one write was attempted, and the stored   *)
(* collection is what it was when the operation was called.                 *)
C11_WriteFailureAborts ==
    /\ create.failed =>
          /\ create.pc = "done"
          /\ create.outcome = "rejected"
          /\ create.thrown = <<MsgStorage>>
          /\ create.writes = 1
          /\ localStorage = create.before
    /\ redir.failed =>
          /\ redir.pc = "done"
          /\ redir.outcome = "rejected"
          /\ redir.result = <<MsgStorage>>
          /\ redir.writes = 1
          /\ localStorage = redir.before

\* the write of a click failed on a store that holds a record
C11_Witness ==
    /\ redir.failed
    /\ redir.before # <<>>
    /\ FindIndex(urlsNow, redir.shortcode) # 0

(* C12: redirect hands the original URL back without waiting for the        *)
(* geolocation lookup: no call that has found its record is still pending,  *)
(* with the lookup outstanding, after time has passed.                      *)
C12_ReturnNotBlockedByGeoLocation ==
    ~( /\ redir.pc = "awaiting"
       /\ redir.shortUrl # <<>>
       /\ redir.outcome = "none"
       /\ now > redir.at )

(* C13: a redirect that returns, for the stored unexpired record its lookup *)
(* found, returns that record's originalUrl; when it returns the store      *)
(* holds the collection of the call with exactly one click, the call's      *)
(* click event, appended to that record and every other record as it was.   *)
C13_RedirectRecordsOneClick ==
    (redir.pc = "done" /\ redir.outcome = "returned") =>
        LET old == LoadUrls(redir.before)
            rec == redir.shortUrl[1]
        IN  /\ redir.result = rec.originalUrl
            /\ \E j \in 1..Len(old) : old[j] = rec
            /\ Len(urlsNow) = Len(old)
            /\ \A j \in 1..Len(old) :
                  urlsNow[j] = IF old[j].id = rec.id
                               THEN [old[j] EXCEPT
                                       !.clicks = Append(@, redir.clickEvent)]
                               ELSE old[j]

\* a redirect returned on a store with two records of the same shortcode
C13_Witness ==
    /\ redir.pc = "done"
    /\ redir.outcome = "returned"
    /\ Len(urlsNow) = 2
    /\ urlsNow[1].shortcode = urlsNow[2].shortcode
    /\ redir.clickEvent.geoLocation.country # <<>>

\* the click events of the stored collection, each named by its place
StoredClicks ==
    { <<j, k>> \in (1..Len(urlsNow)) \X (1..(MaxIds + MaxClicks)) :
        k <= Len(urlsNow[j].clicks) }

(* C14: whatever the store holds and whatever the instant, the summary of   *)
(* getAnalytics has activeUrls + expiredUrls = totalUrls, totalUrls the     *)
(* number of stored records and totalClicks the number of stored clicks.    *)
C14_AnalyticsAddUp ==
    LET a == GetAnalytics(localStorage, now)
    IN  /\ a.activeUrls + a.expiredUrls = a.totalUrls
        /\ a.totalUrls = Len(urlsNow)
        /\ a.totalClicks = Cardinality(StoredClicks)
        /\ \A j \in 1..Len(urlsNow) :
              Len(urlsNow[j].clicks) <= MaxIds + MaxClicks

\* a record that expires at this instant next to an active one, and a click
C14_Witness ==
    LET a == GetAnalytics(localStorage, now)
    IN  /\ a.activeUrls = 1
        /\ a.expiredUrls = 1
        /\ a.totalClicks = 1
        /\ \E j \in 1..Len(urlsNow) : urlsNow[j].expiresAt = now

(* C15: recordClick for a shortcode that no stored record has is a no-op,   *)
(* called directly or by a redirect whose record is gone when it resumes:   *)
(* setItem is not called and the stored value stays what it was.            *)
C15_UnknownCodeNoOp ==
    [][ /\ ( /\ direct' # direct
             /\ direct'.op = "recordClick"
             /\ FindIndex(urlsNow, direct'.shortcode) = 0 ) =>
                /\ localStorage' = localStorage
                /\ direct'.writes = 0
                /\ ~direct'.failed
        /\ ( /\ redir.pc = "awaiting"
             /\ redir'.pc = "done"
             /\ FindIndex(urlsNow, redir.shortcode) = 0 ) =>
                /\ localStorage' = localStorage
                /\ redir'.writes = 0
                /\ ~redir'.failed ]_vars

\* recordClick was called with a code that neither of two stored records has
C15_Witness ==
    /\ direct.op = "recordClick"
    /\ direct.writes = 0
    /\ Len(LoadUrls(direct.before)) = 2
    /\ FindIndex(LoadUrls(direct.before), direct.shortcode) = 0

\* this step leaves the stored collection with clickEvent appended to the
\* first record that has the shortcode, when there is one
ClickAppended(shortcode, clickEvent) ==
    LET j == FindIndex(urlsNow, shortcode)
    IN  j # 0 =>
          LoadUrls(localStorage') =
              [urlsNow EXCEPT ![j].clicks = Append(@, clickEvent)]

(* C16: recordClick applies no expiry check: every recordClick whose write  *)
(* succeeds, called directly or by a redirect that resumes after its        *)
(* lookup, appends the click to the record that has the shortcode, expired  *)
(* or not.                                                                  *)
C16_ClickIgnoresExpiry ==
    [][ /\ ( /\ direct' # direct
             /\ direct'.op = "recordClick"
             /\ ~direct'.failed ) =>
                ClickAppended(direct'.shortcode, direct'.clickEvent)
        /\ ( /\ redir.pc = "awaiting"
             /\ redir'.pc = "done"
             /\ ~redir'.failed ) =>
                ClickAppended(redir.shortcode, redir'.clickEvent) ]_vars

\* a redirect has returned the URL of a record that expired during the
\* geolocation lookup, and the record has gained the click
C16_Witness ==
    /\ redir.pc = "done"
    /\ redir.outcome = "returned"
    /\ redir.shortUrl # <<>>
    /\ FindByShortcode(redir.before, redir.shortcode, redir.at) # <<>>
    /\ FindByShortcode(localStorage, redir.shortcode, now) = <<>>
    /\ LET j == FindIndex(urlsNow, redir.shortcode)
       IN  /\ j # 0
           /\ urlsNow[j].expiresAt < now
           /\ urlsNow[j].clicks # <<>>
           /\ urlsNow[j].clicks[Len(urlsNow[j].clicks)] = redir.clickEvent

\* x is one of the integers 1..10080
InValidityRange(x) ==
    /\ x.den > 0
    /\ (x.num \div x.den) * x.den = x.num
    /\ (x.num \div x.den) \in 1..MaxValidity

\* the record has a validity in range and expires that many minutes after
\* its creation
ValidityKept(url) ==
    /\ InValidityRange(url.validityMinutes)
    /\ url.expiresAt =
          url.createdAt
            + (url.validityMinutes.num \div url.validityMinutes.den) * 60 * 1000

(* C17: every record createUrls creates has the validityMinutes of its      *)
(* request, or 30 when the request has none, an integer from 1 to 10080,    *)
(* and expires that many minutes after createdAt; a request whose           *)
(* validityMinutes is 0, negative, not an integer or above 10080 is not     *)
(* passed on to creation.                                                   *)
C17_ValidityOfCreated ==
    /\ \A j \in 1..Len(urlsNow) : ValidityKept(urlsNow[j])
    /\ \A j \in 1..Len(create.success) : ValidityKept(create.success[j])
    /\ \A k \in 1..Len(create.valid) :
          \/ create.valid[k].validityMinutes = <<>>
          \/ InValidityRange(create.valid[k].validityMinutes[1])
    /\ (create.pc = "awaiting" /\ create.settled.ok) =>
          LET request == create.valid[create.k]
              url == create.settled.shortUrl[1]
          IN  /\ ValidityKept(url)
              /\ url.createdAt = create.at
              /\ url.validityMinutes =
                    IF request.validityMinutes = <<>>
                    THEN Num(30)
                    ELSE request.validityMinutes[1]

\* a week's validity was stored next to the default, and a batch with a
\* fraction and a value above the range created nothing
C17_Witness ==
    /\ Len(urlsNow) = 2
    /\ urlsNow[1].validityMinutes = Num(10080)
    /\ urlsNow[2].validityMinutes = Num(30)
    /\ urlsNow[2].createdAt > 0
    /\ Responded
    /\ create.requests[1].validityMinutes = <<Frac(3, 2)>>
    /\ Len(create.requests) = 2
    /\ create.requests[2].validityMinutes = <<Num(10081)>>
    /\ create.success = <<>>
    /\ Len(create.errors) = 2

(* C18: a createUrls call writes to the store at most once, and only after  *)
(* every item of the batch has been processed; the write holds the          *)
(* collection of before the call followed by all the records the batch      *)
(* created; a call that creates nothing does not write.                     *)
C18_OneWritePerBatch ==
    /\ create.writes <= 1
    /\ create.pc = "awaiting" =>
          /\ create.writes = 0
          /\ localStorage = create.before
    /\ create.pc = "done" =>
          /\ create.writes = IF create.success = <<>> THEN 0 ELSE 1
          /\ create.success = <<>> => localStorage = create.before
          /\ (create.success # <<>> /\ ~create.failed) =>
                urlsNow = LoadUrls(create.before) \o create.success

\* a batch of two created two records on a store that held one; and the
\* write is the only one
C18_Witness ==
    /\ Responded
    /\ Len(create.success) = 2
    /\ create.before # <<>>
    /\ create.writes = 1
    /\ Len(urlsNow) = 3

\* the stored records, newest first: a rearrangement of the stored
\* collection in which no record comes before a newer one
IsNewestFirst(sorted) ==
    /\ Len(sorted) = Len(urlsNow)
    /\ \A j \in 1..Len(urlsNow) :
          Cardinality({ i \in 1..Len(sorted) : sorted[i] = urlsNow[j] }) =
          Cardinality({ i \in 1..Len(urlsNow) : urlsNow[i] = urlsNow[j] })
    /\ \A i \in 1..Len(sorted) : \A j \in i..Len(sorted) :
          sorted[i].createdAt >= sorted[j].createdAt

\* the pages 0, 1, 2, ... up to the first one that has no more, one after
\* the other
RECURSIVE Walk(_, _)
Walk(page, limit) ==
    LET r == GetUrlsPaginated(localStorage, page, limit)
    IN  IF r.hasMore THEN r.urls \o Walk(page + 1, limit) ELSE r.urls

(* C19: getUrlsPaginated(page, limit), for a page from 0 and a limit from   *)
(* 1, returns the number of stored records as total, the positions          *)
(* page*limit up to (not including) page*limit + limit of the records       *)
(* ordered newest first as urls, and hasMore exactly when                   *)
(* page*limit + limit < total; the pages walked from 0 while hasMore holds  *)
(* give every stored record exactly once.                                   *)
C19_Pagination ==
    LET sorted == SortNewestFirst(urlsNow)
    IN  /\ IsNewestFirst(sorted)
        /\ \A page \in 0..MaxPage : \A limit \in 1..MaxLimit :
              LET r == GetUrlsPaginated(localStorage, page, limit)
                  window == { i \in 1..Len(sorted) :
                                /\ i - 1 >= page * limit
                                /\ i - 1 < page * limit + limit }
              IN  /\ r.total = Len(urlsNow)
                  /\ Len(r.urls) = Cardinality(window)
                  /\ \A n \in 1..Len(r.urls) :
                        r.urls[n] = sorted[page * limit + n]
                  /\ r.hasMore <=> (page * limit + limit < Len(urlsNow))
        /\ \A limit \in 1..MaxLimit :
              LET walked == Walk(0, limit)
              IN  /\ walked = sorted
                  /\ \A j \in 1..Len(urlsNow) :
                        Cardinality({ i \in 1..Len(walked) :
                                        walked[i].id = urlsNow[j].id }) = 1

\* three records, the newest stored last, so that pages of one and of two
\* records end on a later page, which has no more
C19_Witness ==
    /\ Len(urlsNow) = 3
    /\ urlsNow[1].createdAt < urlsNow[3].createdAt
    /\ urlsNow[1].createdAt = urlsNow[2].createdAt
    /\ GetUrlsPaginated(localStorage, 0, 2).hasMore
    /\ ~GetUrlsPaginated(localStorage, 1, 2).hasMore
    /\ GetUrlsPaginated(localStorage, 1, 2).urls = <<urlsNow[2]>>
    /\ GetUrlsPaginated(localStorage, 0, 1).urls = <<urlsNow[3]>>
    /\ ~GetUrlsPaginated(localStorage, 0, 3).hasMore

(* C20: what loadUrls returns after a saveUrls is the collection that was   *)
(* saved: the same records in the same order, each with the same clicks in  *)
(* the same order and the same field values, createdAt, expiresAt and the   *)
(* click timestamps being the same instants.                                *)
C20_SaveLoadRoundTrip ==
    [][ ( /\ direct' # direct
          /\ direct'.saved # <<>>
          /\ ~direct'.failed ) =>
            LET saved == direct'.saved[1]
                loaded == LoadUrls(localStorage')
            IN  /\ Len(loaded) = Len(saved)
                /\ \A j \in 1..Len(saved) :
                      /\ loaded[j].createdAt = saved[j].createdAt
                      /\ loaded[j].expiresAt = saved[j].expiresAt
                      /\ Len(loaded[j].clicks) = Len(saved[j].clicks)
                      /\ \A k \in 1..Len(saved[j].clicks) :
                            loaded[j].clicks[k].timestamp =
                                saved[j].clicks[k].timestamp
                      /\ loaded[j] = saved[j] ]_vars

\* two records and a click were saved and are stored, their instants with
\* every part of the text of a date filled
C20_Witness ==
    /\ direct.op = "recordClick"
    /\ direct.saved # <<>>
    /\ ~direct.failed
    /\ Len(urlsNow) = 2
    /\ urlsNow = direct.saved[1]
    /\ urlsNow[2].clicks # <<>>
    /\ urlsNow[2].clicks[1].timestamp % MsPerSecond # 0
    /\ urlsNow[1].createdAt % MsPerSecond # 0
    /\ urlsNow[1].createdAt > MsPerDay
    /\ urlsNow[2].clicks[1].geoLocation.country # <<>>

\* the text matches ^[A-Za-z0-9]{6}$
IsSixAlnum(shortcode) ==
    /\ Len(shortcode) = 6
    /\ \A i \in 1..Len(shortcode) : shortcode[i] \in AlnumChars

\* picks at the ends of the three ranges of chars
EdgePicks == {0, 25, 26, 51, 52, 61}

(* C21: a generated shortcode (no custom shortcode in the request) has      *)
(* exactly 6 characters from [A-Za-z0-9], whatever Math.random gave, and    *)
(* when createSingleUrl accepts it no stored record has it.                 *)
C21_GeneratedCodeFresh ==
    /\ \A p \in EdgePicks :
          IsSixAlnum(GenerateShortcode(GenLength, [i \in 1..GenLength |-> p]))
    /\ \A j \in 1..Len(urlsNow) :
          ~urlsNow[j].isCustomShortcode => IsSixAlnum(urlsNow[j].shortcode)
    /\ ( /\ create.pc = "awaiting"
         /\ create.settled.ok
         /\ ~create.settled.shortUrl[1].isCustomShortcode ) =>
            LET shortcode == create.settled.shortUrl[1].shortcode
            IN  /\ IsSixAlnum(shortcode)
                /\ \A j \in 1..Len(urlsNow) : urlsNow[j].shortcode # shortcode

\* a generated code was accepted after an earlier candidate collided with
\* a stored code
C21_Witness ==
    /\ create.pc = "awaiting"
    /\ create.settled.ok
    /\ ~create.settled.shortUrl[1].isCustomShortcode
    /\ create.settled.draws > 1
    /\ urlsNow # <<>>
    /\ \A j \in 1..Len(urlsNow) :
          urlsNow[j].shortcode # create.settled.shortUrl[1].shortcode

\* what the readers of the store return for an empty collection
EmptyAnalytics ==
    [totalUrls |-> 0, totalClicks |-> 0, activeUrls |-> 0, expiredUrls |-> 0]

EmptyPage == [urls |-> <<>>, total |-> 0, hasMore |-> FALSE]

(* C22: while the stored text cannot be loaded, every reader behaves as on  *)
(* an empty collection: findByShortcode finds nothing, isShortcodeInUse is  *)
(* false, getAnalytics is all zeros, getUrlsPaginated has no items, and a   *)
(* redirect fails with the ordinary not-found error.                        *)
C22_LoadFailureReadsEmpty ==
    /\ LoadThrows(localStorage) =>
          /\ urlsNow = <<>>
          /\ \A shortcode \in RedirectCodes :
                /\ FindByShortcode(localStorage, shortcode, now) = <<>>
                /\ ~IsShortcodeInUse(localStorage, shortcode)
          /\ GetAnalytics(localStorage, now) = EmptyAnalytics
          /\ \A page \in 0..MaxPage : \A limit \in 1..MaxLimit :
                GetUrlsPaginated(localStorage, page, limit) = EmptyPage
    /\ (redir.pc # "idle" /\ LoadThrows(redir.before)) =>
          /\ redir.pc = "done"
          /\ redir.outcome = "rejected"
          /\ redir.result = <<MsgNotFound>>
          /\ redir.writes = 0

\* a redirect for the code of an unexpired record was made on a text that
\* holds the record and cannot be loaded
C22_Witness ==
    /\ LoadThrows(localStorage)
    /\ Len(localStorage[1]) = 3
    /\ redir.pc = "done"
    /\ redir.before = localStorage
    /\ ParseUrl(localStorage[1][1]).shortcode = redir.shortcode
    /\ ParseUrl(localStorage[1][1]).expiresAt > now

\* what createUrls and redirectUrl return and what is stored
CoreVars == <<localStorage, now, nextId, create, redir>>

\* a step of UrlService as it runs with no logger at all
UrlServiceStep ==
    \/ \E requests \in LogBatches : CallCreateUrls(requests)
    \/ ResumeNext
    \/ ResumeLast
    \/ ReturnCreateUrls
    \/ \E shortcode \in LogCodes : CallRedirect(shortcode)
    \/ \E geo \in GeoResults : ResumeRedirect(geo)
    \/ ReturnRedirect

\* a call in flight can take its next step
CallsProceed ==
    /\ create.pc = "awaiting" => ENABLED (LoggedResumeNext \/ LoggedResumeLast)
    /\ create.pc = "done" => ENABLED (ReturnCreateUrls /\ CoreOnly)
    /\ redir.pc = "awaiting" =>
            \A geo \in GeoResults : ENABLED LoggedResumeRedirect(geo)
    /\ redir.pc = "done" => ENABLED (ReturnRedirect /\ CoreOnly)

(* C23: what createUrls and redirectUrl return and what is stored does not  *)
(* depend on the logging sink.  Beside a logger whose deliveries succeed,   *)
(* fail or stay outstanding, every change of the calls and of the store is  *)
(* a step UrlService takes with no logger at all (a delivery that settles   *)
(* changes neither), and a call in flight can take its next step whatever   *)
(* the logger holds: the runs differ in the logger only.                    *)
C23_LoggingSinkIndependent ==
    [][ /\ CoreVars' # CoreVars => UrlServiceStep
        /\ CallsProceed ]_vars

\* createUrls has returned records while a delivery of the batch in flight
\* has failed and another is still outstanding
C23_Witness ==
    /\ create.pc = "done"
    /\ create.outcome = "returned"
    /\ create.success # <<>>
    /\ logger.isProcessing
    /\ logger.failed
    /\ logger.fetches # EmptyBag

\* the identifiers of the records of a stored text
StoredIds(ls) == { LoadUrls(ls)[j].id : j \in 1..Len(LoadUrls(ls)) }

\* the identifiers of the clicks of a stored text
StoredClickIds(ls) ==
    UNION { { LoadUrls(ls)[j].clicks[k].id : k \in 1..Len(LoadUrls(ls)[j].clicks) } :
                j \in 1..Len(LoadUrls(ls)) }

(* C24: the store has no mutual exclusion across tabs.  A save stores what  *)
(* its caller has read with the caller's own change and nothing else: every *)
(* record and every click stored since the caller's read is gone after the  *)
(* save, although the call that stored it was reported successful.          *)
C24_LaterSaveOverwrites ==
    [][ \A i \in DOMAIN calls :
            (calls[i].pc = "loaded" /\ calls'[i].ok) =>
                /\ LoadUrls(localStorage') = TabValue(calls[i])
                /\ \A id \in StoredIds(localStorage) \ StoredIds(calls[i].read) :
                        id \notin StoredIds(localStorage')
                /\ \A id \in StoredClickIds(localStorage) \ StoredClickIds(calls[i].read) :
                        id \notin StoredClickIds(localStorage') ]_vars

\* a tab's addUrls has returned without an error and its record is not stored
C24_Witness ==
    \E i \in DOMAIN calls :
        /\ calls[i].op = "addUrls"
        /\ calls[i].ok
        /\ calls[i].shortUrl[1].id \notin StoredIds(localStorage)

\* the custom shortcodes a batch asks for
CustomCodes(requests) ==
    { SanitizeShortcode(requests[n].customShortcode[1]) :
        n \in { m \in 1..Len(requests) : HasCustomShortcode(requests[m]) } }

\* the invocation returned a record with the shortcode in success
ReturnsCode(call, shortcode) ==
    /\ call.c.outcome = "returned"
    /\ \E n \in 1..Len(call.c.success) : call.c.success[n].shortcode = shortcode

\* the stored records with the shortcode
StoredWith(shortcode) == { n \in 1..Len(urlsNow) : urlsNow[n].shortcode = shortcode }

(* C25: when two createUrls invocations are in flight at the same time and  *)
(* both ask for the same custom shortcode, which is not stored, at most one *)
(* of them returns that code in success, and once both have returned at     *)
(* most one stored record carries it.                                       *)
C25_OneWinnerPerCustomCode ==
    \A i, j \in DOMAIN calls :
        \A shortcode \in CustomCodes(calls[i].c.requests) \cap
                         CustomCodes(calls[j].c.requests) :
            ( /\ i \in calls[j].over
              /\ calls[i].kind = "createUrls" /\ calls[j].kind = "createUrls"
              /\ calls[i].c.pc = "done" /\ calls[j].c.pc = "done"
              /\ ~IsShortcodeInUse(calls[i].c.before, shortcode)
              /\ ~IsShortcodeInUse(calls[j].c.before, shortcode) )
            => /\ ~(ReturnsCode(calls[i], shortcode) /\ ReturnsCode(calls[j], shortcode))
               /\ Cardinality(StoredWith(shortcode)) <= 1

\* the redirectUrl invocations for the shortcode that returned the URL
ReturnedRedirects(shortcode) ==
    { k \in DOMAIN calls :
        /\ calls[k].kind = "redirectUrl"
        /\ calls[k].r.outcome = "returned"
        /\ calls[k].r.shortcode = shortcode }

\* no setItem has thrown
NoWriteFailed ==
    \A k \in DOMAIN calls : ~calls[k].c.failed /\ ~calls[k].r.failed

(* C26: on one thread, with no bulk clear and no write failure, once every  *)
(* overlapping call has completed each stored record has as many clicks as  *)
(* redirectUrl calls for its code returned the URL, and every record a      *)
(* createUrls call returned in success is stored.                           *)
C26_NoLostUpdate ==
    (InFlight = {} /\ NoWriteFailed) =>
        /\ \A n \in 1..Len(urlsNow) :
                Len(urlsNow[n].clicks) =
                    Cardinality(ReturnedRedirects(urlsNow[n].shortcode))
        /\ \A k \in DOMAIN calls :
                calls[k].c.outcome = "returned" =>
                    \A m \in 1..Len(calls[k].c.success) :
                        calls[k].c.success[m].id \in StoredIds(localStorage)

(* C27: lookup and analytics agree on every stored record at every instant: *)
(* findByShortcode returns the record (so isValidShortcode is true and      *)
(* redirectUrl goes on) if and only if getAnalytics counts it as active,    *)
(* that is if and only if now < expiresAt.  Stated for the record a lookup  *)
(* of its code resolves to, the first one with the code.                    *)
C27_LookupAgreesWithAnalytics ==
    \A j \in 1..Len(urlsNow) :
        FindIndex(urlsNow, urlsNow[j].shortcode) = j =>
            LET found == FindByShortcode(localStorage, urlsNow[j].shortcode, now) # <<>>
                active == IsActiveAt(now, urlsNow[j].expiresAt)
            IN  /\ found <=> active
                /\ active <=> now < urlsNow[j].expiresAt

\* the requests of a list that ask for the trimmed custom shortcode
AskingFor(requests, shortcode) ==
    { n \in 1..Len(requests) :
        HasCustomShortcode(requests[n]) /\ CodeOf(requests, n) = shortcode }

\* the records the call has created under the custom shortcode
CreatedWith(shortcode) ==
    { n \in 1..Len(create.success) :
        create.success[n].isCustomShortcode /\ create.success[n].shortcode = shortcode }

(* C28: in batch validation the first request with a given trimmed custom   *)
(* shortcode reserves it whether or not it passes its own validation: every *)
(* later request with the code is reported as a duplicate at its own index  *)
(* and is not in the valid list, so at most the first occurrence is created,*)
(* and none is created when the first occurrence is invalid.                *)
C28_FirstOccurrenceReserves ==
    Responded =>
        \A i \in 1..Len(create.requests) : \A j \in 1..Len(create.requests) :
            ( /\ i < j
              /\ HasCustomShortcode(create.requests[i])
              /\ HasCustomShortcode(create.requests[j])
              /\ CodeOf(create.requests, i) = CodeOf(create.requests, j)
              /\ ~IsRepeat(create.requests, i) )
            => LET shortcode == CodeOf(create.requests, i)
                   firstValid == ValidateUrlRequest(create.requests[i]) = <<>>
               IN  /\ \E n \in 1..Len(create.errors) :
                        /\ create.errors[n].index = j - 1
                        /\ \E m \in 1..Len(create.errors[n].error) :
                            create.errors[n].error[m] = MsgDuplicate
                   /\ Cardinality(AskingFor(create.valid, shortcode)) =
                            IF firstValid THEN 1 ELSE 0
                   /\ Cardinality(CreatedWith(shortcode)) <= 1
                   /\ \A n \in CreatedWith(shortcode) :
                        /\ firstValid
                        /\ create.success[n].originalUrl =
                                Trim(create.requests[i].originalUrl)
                   /\ ~firstValid => CreatedWith(shortcode) = {}

\* the first request with "aaa" has a URL that is not http(s), the second is
\* valid on its own: nothing is created and both are reported
C28_Witness ==
    /\ Responded
    /\ Len(create.requests) = 2
    /\ HasCustomShortcode(create.requests[1])
    /\ HasCustomShortcode(create.requests[2])
    /\ CodeOf(create.requests, 1) = CodeOf(create.requests, 2)
    /\ ValidateUrlRequest(create.requests[1]) # <<>>
    /\ ValidateUrlRequest(create.requests[2]) = <<>>
    /\ create.success = <<>>
    /\ Len(create.errors) = 2
    /\ create.errors[2] = [index |-> 1, error |-> <<MsgDuplicate>>]

(* C29: when a fetch of a batch of queued entries has failed (a network     *)
(* error or a response that is not ok), processQueue puts the entries of    *)
(* the batch back at the front of the queue when it resumes.                *)
C29_FailedBatchRequeued ==
    [][ (logger.isProcessing /\ ~logger'.isProcessing /\ logger.failed) =>
            /\ Len(logger'.logQueue) >= Len(logger.logsToProcess)
            /\ SubSeq(logger'.logQueue, 1, Len(logger.logsToProcess)) =
                    logger.logsToProcess ]_vars

\* the sendLog calls processQueue has made
SentByProcessQueue == { f \in logger.sent : f.by = "processQueue" }

\* at most one batch is in flight: the fetches of processQueue that are
\* outstanding belong to the batch of the cycle that is running
OneBatchInFlight ==
    \A f \in LoggerFetches(logger) :
        f.by = "processQueue" => logger.isProcessing /\ f.cycle = logger.cycle

\* one processQueue cycle is pending (its timer is set) or running
OneCyclePendingOrRunning ==
    logger.timers + (IF logger.isProcessing THEN 1 ELSE 0) = 1

\* no entry is sent by two queue cycles
SentByOneCycle ==
    \A f \in SentByProcessQueue : \A g \in SentByProcessQueue :
        f.id = g.id => f.cycle = g.cycle

\* no entry leaves the queue without a send attempt
NoneDropped ==
    \A id \in 1..(logger.nextLog - 1) :
        \/ \E n \in 1..Len(logger.logQueue) : logger.logQueue[n].id = id
        \/ \E f \in SentByProcessQueue : f.id = id

=============================================================================
